---- MODULE Spec2Model ----
(***************************************************************************)
(* Model of the corroza synthesis core: the ADSR envelope generator        *)
(* (src/src/generator/adsr.rs), the FM voice's envelope pair               *)
(* (src/src/generator/fm_synth.rs), the voice manager                      *)
(* (src/src/pipeline/voicemgr.rs) and the event scheduler                  *)
(* (src/src/pipeline/scheduler.rs).                                        *)
(*                                                                         *)
(* Amplitudes are f32 values in the source.  They are modelled as exact    *)
(* rationals with the common denominator ONE: the integer a stands for     *)
(* a / ONE.  ONE is chosen so that every ramp division of the bounded      *)
(* configurations is exact, hence the model computes the real-number       *)
(* value of each expression of the source (f32 rounding is not modelled).  *)
(* Note frequencies and base phase increments are the exception: they are  *)
(* modelled as f32 values bit for bit.                                     *)
(***************************************************************************)
EXTENDS Integers, Sequences, FiniteSets, TLC

VARIABLES
    adsr,            \* the AdsrGenerator under test
    op,              \* the last call made on it: "new", "note_off" or "process"
    pre,             \* the AdsrGenerator as it was before that call
    buffer,          \* the samples the last process call wrote
    tags,            \* for each of them, the phase whose code wrote it
    ret,             \* the GeneratorState the last process call returned
    emitted,         \* the last sample emitted so far, with its phase
    emitted_before,  \* the same, before the last call
    sustain_emitted, \* number of samples emitted in Sustain so far
    off_called,      \* whether note_off was ever called
    args,            \* the arguments of the AdsrGenerator::new call under test
    run,             \* a caller's loop of equal buffers: the buffer length, the calls made
    twin             \* a newly constructed envelope given the calls made since the last reset

VARIABLES
    config,          \* VoiceManager.config: the VoiceConfig shared by all voices
    active_voices,   \* VoiceManager.active_voices, in creation order
    vm_op,           \* the last call made on the voice manager
    voices_before,   \* active_voices as it was before that call
    completed,       \* indices the last process_frame collected as completed
    mix              \* the last process_frame's buffer: before the call, each voice's samples, after

VARIABLES
    pconfig,         \* PipelineConfig: frame_size and timestep_samples
    events,          \* Pipeline.events: the timeline
    pipe,            \* Pipeline: current_sample, event_index, samples_to_next_event, has_more_events
    dispatched_at,   \* for each entry dispatched so far, current_sample at its dispatch
    release_frames,  \* for each voice of voices_before, the process_frame calls since its Up
    wav              \* Pipeline::generate_wav: the loop it is in, its counters, what it reported

adsr_vars == <<adsr, op, pre, buffer, tags, ret, emitted, emitted_before,
               sustain_emitted, off_called, args, run, twin>>

vm_vars == <<config, active_voices, vm_op, voices_before, completed, mix>>

pipe_vars == <<pconfig, events, pipe, dispatched_at, release_frames, wav>>

VARIABLES
    fm,              \* the FmSynthGenerator under test: params, mod_env, wav_env, sample_count
    fm_phase,        \* its phase accumulator
    fm_op,           \* the last call made on it: "new", "note_off", "process" or "reset"
    fm_pre,          \* the FmSynthGenerator as it was before that call
    fm_out,          \* what the last process call wrote and returned; whether reset was called
    pnew             \* the last FmSynthParams::new call: its arguments and its outcome

fm_vars == <<fm, fm_phase, fm_op, fm_pre, fm_out, pnew>>

vars == <<adsr_vars, vm_vars, pipe_vars, fm_vars>>

\* ------------------------------------------------------------------ bounds
\* largest duration (attack, decay, sustain max, release) given to AdsrGenerator::new
MaxDur == 3
\* largest buffer length handed to AdsrGenerator::process
MaxBuf == 3
\* largest buffer length handed to VoiceManager::process_frame
MaxFrame == 2
\* largest number of voices the callers of the voice manager let the pool hold
MaxVoices == 2
\* the callers of the voice manager stop before a voice has rendered more samples
MaxVoiceSamples == 5
\* largest number of timeline entries
MaxEntries == 2
\* largest delta of a timeline entry
MaxDelta == 2
\* the pipeline's caller stops rendering at this sample position
MaxSamples == 12
\* largest number of samples one FmSynthGenerator is asked for
MaxFmSamples == 6
\* number of Down/Up pairs of the long timeline given to generate_wav
LongPairs == 510
\* largest number of voices mixed by the process_frame calls whose buffers are looked at
MaxMixVoices == 2
\* those calls stop before a voice has rendered more samples
MaxMixSamples == 4
\* PipelineConfig::default().sample_rate
SampleRate == 44100
\* usize::MAX, as far as the model's integers go
UsizeMax == 2147483647
\* PipelineConfig::default().base_frequency, in hertz
BaseFrequency == 110
\* PipelineConfig::default().frame_size
DefaultFrameSize == 64
\* generate_wav: max_iterations = max_samples / frame_size + 1000
IterationSlack == 1000
\* generate_wav: trailing_frames
TrailingFrames == 10
\* PI in the unit of phase increments: thousandths of PI
PiUnits == 1000

\* ------------------------------------------------------- arithmetic helpers
Max(a, b) == IF a >= b THEN a ELSE b

Min(a, b) == IF a <= b THEN a ELSE b

RECURSIVE Fact(_)
Fact(n) == IF n <= 1 THEN 1 ELSE n * Fact(n - 1)

\* the amplitude 1.0; divisible by 2 and by (L1 - 1) * (L2 - 1) for all durations
ONE == 2 * Fact(MaxDur) * Fact(MaxDur)

\* f32::clamp(0.0, 1.0)
Clamp01(x) == IF x < 0 THEN 0 ELSE IF x > ONE THEN ONE ELSE x

\* amplitudes given to the constructor, some outside [0,1]
AmpInputs == {0 - (ONE \div 2), 0, ONE \div 2, ONE, ONE + (ONE \div 2)}

\* durations given to the constructor: 0 (stored as 1), the one-sample phase,
\* the shortest ramp and the longest one
DurInputs == {0, 1, 2, MaxDur}

\* ------------------------------------------------------------ AdsrGenerator
AdsrPhase == {"Attack", "Decay", "Sustain", "Release", "Complete"}

\* the constructor without the clamps
AdsrNew_NoClamp(initial_amplitude, attack_samples, decay_samples, sustain_level, sustain_max_samples, release_samples) ==
    [initial_amplitude       |-> initial_amplitude,
     attack_duration         |-> Max(attack_samples, 1),
     decay_duration          |-> Max(decay_samples, 1),
     sustain_level           |-> sustain_level,
     sustain_max_duration    |-> Max(sustain_max_samples, 1),
     release_duration        |-> Max(release_samples, 1),
     phase                   |-> "Attack",
     position                |-> 0,
     sustain_position        |-> 0,
     current_amplitude       |-> initial_amplitude,
     release_start_amplitude |-> 0,
     pending_note_off        |-> FALSE]

\* the constructor without the floor of 1 on the durations
AdsrNew_NoFloor(initial_amplitude, attack_samples, decay_samples, sustain_level, sustain_max_samples, release_samples) ==
    [initial_amplitude       |-> Clamp01(initial_amplitude),
     attack_duration         |-> attack_samples,
     decay_duration          |-> decay_samples,
     sustain_level           |-> Clamp01(sustain_level),
     sustain_max_duration    |-> sustain_max_samples,
     release_duration        |-> release_samples,
     phase                   |-> "Attack",
     position                |-> 0,
     sustain_position        |-> 0,
     current_amplitude       |-> Clamp01(initial_amplitude),
     release_start_amplitude |-> 0,
     pending_note_off        |-> FALSE]

\* AdsrGenerator::new
AdsrNew(initial_amplitude, attack_samples, decay_samples, sustain_level, sustain_max_samples, release_samples) ==
    [initial_amplitude       |-> Clamp01(initial_amplitude),
     attack_duration         |-> Max(attack_samples, 1),
     decay_duration          |-> Max(decay_samples, 1),
     sustain_level           |-> Clamp01(sustain_level),
     sustain_max_duration    |-> Max(sustain_max_samples, 1),
     release_duration        |-> Max(release_samples, 1),
     phase                   |-> "Attack",
     position                |-> 0,
     sustain_position        |-> 0,
     current_amplitude       |-> Clamp01(initial_amplitude),
     release_start_amplitude |-> 0,
     pending_note_off        |-> FALSE]

\* note_off that starts the release at once instead of queueing it
AdsrNoteOff_Immediate(e) ==
    IF e.phase \in {"Attack", "Decay", "Sustain"}
    THEN [e EXCEPT !.phase = "Release",
                   !.release_start_amplitude = e.current_amplitude,
                   !.position = 0]
    ELSE e

\* AdsrGenerator::note_off
AdsrNoteOff(e) == [e EXCEPT !.pending_note_off = TRUE]

\* process_events that applies a pending note_off in every phase
AdsrProcessEvents_AnyPhase(e) ==
    IF e.pending_note_off
    THEN [e EXCEPT !.pending_note_off = FALSE,
                   !.phase = "Release",
                   !.release_start_amplitude = e.current_amplitude,
                   !.position = 0]
    ELSE IF e.phase = "Sustain" /\ e.sustain_position >= e.sustain_max_duration
         THEN [e EXCEPT !.phase = "Release",
                        !.release_start_amplitude = e.current_amplitude,
                        !.position = 0]
         ELSE e

\* process_events whose release keeps the position of the interrupted phase
AdsrProcessEvents_KeepPosition(e) ==
    LET e1 == IF e.pending_note_off
              THEN IF e.phase \in {"Attack", "Decay", "Sustain"}
                   THEN [e EXCEPT !.pending_note_off = FALSE,
                                  !.phase = "Release",
                                  !.release_start_amplitude = e.current_amplitude]
                   ELSE [e EXCEPT !.pending_note_off = FALSE]
              ELSE e
    IN IF e1.phase = "Sustain" /\ e1.sustain_position >= e1.sustain_max_duration
       THEN [e1 EXCEPT !.phase = "Release",
                       !.release_start_amplitude = e1.current_amplitude,
                       !.position = 0]
       ELSE e1

\* process_events that leaves Sustain only after one sample more than the maximum
AdsrProcessEvents_SustainOneMore(e) ==
    LET e1 == IF e.pending_note_off
              THEN IF e.phase \in {"Attack", "Decay", "Sustain"}
                   THEN [e EXCEPT !.pending_note_off = FALSE,
                                  !.phase = "Release",
                                  !.release_start_amplitude = e.current_amplitude,
                                  !.position = 0]
                   ELSE [e EXCEPT !.pending_note_off = FALSE]
              ELSE e
    IN IF e1.phase = "Sustain" /\ e1.sustain_position > e1.sustain_max_duration
       THEN [e1 EXCEPT !.phase = "Release",
                       !.release_start_amplitude = e1.current_amplitude,
                       !.position = 0]
       ELSE e1

\* AdsrGenerator::process_events
AdsrProcessEvents(e) ==
    LET e1 == IF e.pending_note_off
              THEN IF e.phase \in {"Attack", "Decay", "Sustain"}
                   THEN [e EXCEPT !.pending_note_off = FALSE,
                                  !.phase = "Release",
                                  !.release_start_amplitude = e.current_amplitude,
                                  !.position = 0]
                   ELSE [e EXCEPT !.pending_note_off = FALSE]
              ELSE e
    IN IF e1.phase = "Sustain" /\ e1.sustain_position >= e1.sustain_max_duration
       THEN [e1 EXCEPT !.phase = "Release",
                       !.release_start_amplitude = e1.current_amplitude,
                       !.position = 0]
       ELSE e1

\* the interpolation with t = global_pos / total_samples: the ramp stops short of its end
Interp_OverLength(start_amp, end_amp, global_pos, total_samples) ==
    start_amp + (((end_amp - start_amp) * global_pos) \div total_samples)

\* start_amp + (end_amp - start_amp) * t, t = global_pos / (total_samples - 1).max(1)
Interp(start_amp, end_amp, global_pos, total_samples) ==
    start_amp + (((end_amp - start_amp) * global_pos) \div Max(total_samples - 1, 1))

\* the samples a ramp loop writes while global_pos < total_samples:
\* k samples from position pos on
RampSamples(start_amp, end_amp, pos, total_samples, k) ==
    [i \in 1..k |-> Interp(start_amp, end_amp, pos + i - 1, total_samples)]

\* a ramp loop that leaves the ramp one sample early
RampCount_OneShort(pos, total_samples, n) == Min(n, Max(total_samples - pos - 1, 0))

\* number of loop iterations of a ramp loop that take the global_pos < total_samples branch
RampCount(pos, total_samples, n) == Min(n, Max(total_samples - pos, 0))

Fill(n, x) == [i \in 1..n |-> x]

\* AdsrGenerator::process_sustain on a buffer of n samples
ProcessSustain(e, n) ==
    [env    |-> [e EXCEPT !.current_amplitude = e.sustain_level,
                          !.sustain_position = e.sustain_position + n],
     buffer |-> Fill(n, e.sustain_level),
     tags   |-> Fill(n, "Sustain"),
     state  |-> "Running"]

\* AdsrGenerator::process_decay on a buffer of n samples
ProcessDecay(e, n) ==
    LET total == e.decay_duration
        k     == RampCount(e.position, total, n)
        ramp  == RampSamples(ONE, e.sustain_level, e.position, total, k)
        amp   == IF k > 0 THEN ramp[k] ELSE e.current_amplitude
    IN IF k < n
       THEN LET r == ProcessSustain([e EXCEPT !.current_amplitude = amp,
                                              !.phase = "Sustain",
                                              !.position = 0,
                                              !.sustain_position = 0], n - k)
            IN [env    |-> r.env,
                buffer |-> ramp \o r.buffer,
                tags   |-> Fill(k, "Decay") \o r.tags,
                state  |-> "Running"]
       ELSE LET pos == e.position + n
            IN [env    |-> IF pos >= total
                           THEN [e EXCEPT !.current_amplitude = amp,
                                          !.phase = "Sustain",
                                          !.position = 0,
                                          !.sustain_position = 0]
                           ELSE [e EXCEPT !.current_amplitude = amp,
                                          !.position = pos],
                buffer |-> ramp,
                tags   |-> Fill(k, "Decay"),
                state  |-> "Running"]

\* AdsrGenerator::process_attack on a buffer of n samples
ProcessAttack(e, n) ==
    LET total == e.attack_duration
        k     == RampCount(e.position, total, n)
        ramp  == RampSamples(e.initial_amplitude, ONE, e.position, total, k)
        amp   == IF k > 0 THEN ramp[k] ELSE e.current_amplitude
    IN IF k < n
       THEN LET r == ProcessDecay([e EXCEPT !.current_amplitude = amp,
                                            !.phase = "Decay",
                                            !.position = 0], n - k)
            IN [env    |-> r.env,
                buffer |-> ramp \o r.buffer,
                tags   |-> Fill(k, "Attack") \o r.tags,
                state  |-> "Running"]
       ELSE LET pos == e.position + n
            IN [env    |-> IF pos >= total
                           THEN [e EXCEPT !.current_amplitude = amp,
                                          !.phase = "Decay",
                                          !.position = 0]
                           ELSE [e EXCEPT !.current_amplitude = amp,
                                          !.position = pos],
                buffer |-> ramp,
                tags   |-> Fill(k, "Attack"),
                state  |-> "Running"]

\* AdsrGenerator::process_release on a buffer of n samples
ProcessRelease(e, n) ==
    LET total == e.release_duration
        k     == RampCount(e.position, total, n)
        ramp  == RampSamples(e.release_start_amplitude, 0, e.position, total, k)
        amp   == IF k > 0 THEN ramp[k] ELSE e.current_amplitude
    IN IF k < n
       THEN [env    |-> [e EXCEPT !.phase = "Complete",
                                  !.current_amplitude = 0],
             buffer |-> ramp \o Fill(n - k, 0),
             tags   |-> Fill(k, "Release") \o Fill(n - k, "Complete"),
             state  |-> "Complete"]
       ELSE LET pos == e.position + n
            IN [env    |-> IF pos >= total
                           THEN [e EXCEPT !.current_amplitude = amp,
                                          !.position = pos,
                                          !.phase = "Complete"]
                           ELSE [e EXCEPT !.current_amplitude = amp,
                                          !.position = pos],
                buffer |-> ramp,
                tags   |-> Fill(k, "Release"),
                state  |-> IF pos >= total THEN "Complete" ELSE "Running"]

\* <AdsrGenerator as SignalGenerator>::process: the match on the phase
ProcessPhase(e1, n) ==
    CASE e1.phase = "Attack"   -> ProcessAttack(e1, n)
      [] e1.phase = "Decay"    -> ProcessDecay(e1, n)
      [] e1.phase = "Sustain"  -> ProcessSustain(e1, n)
      [] e1.phase = "Release"  -> ProcessRelease(e1, n)
      [] e1.phase = "Complete" ->
             [env    |-> [e1 EXCEPT !.current_amplitude = 0],
              buffer |-> Fill(n, 0),
              tags   |-> Fill(n, "Complete"),
              state  |-> "Complete"]

\* <AdsrGenerator as SignalGenerator>::process on a buffer of n samples
AdsrProcess(e, n) == ProcessPhase(AdsrProcessEvents(e), n)

\* AdsrGenerator::is_complete
AdsrIsComplete(e) == e.phase = "Complete"

\* reset that leaves the sustain counter and a queued note_off alone
AdsrReset_KeepsSustain(e) ==
    [e EXCEPT !.phase = "Attack",
              !.position = 0,
              !.current_amplitude = e.initial_amplitude,
              !.release_start_amplitude = 0]

\* <AdsrGenerator as SignalGenerator>::reset
AdsrReset(e) ==
    [e EXCEPT !.phase = "Attack",
              !.position = 0,
              !.sustain_position = 0,
              !.current_amplitude = e.initial_amplitude,
              !.release_start_amplitude = 0,
              !.pending_note_off = FALSE]

\* --------------------------------------------------------- FmSynthGenerator
\* The generator's parameters, its two envelopes and its sample counter.

\* FmSynthParams::new without the comparison of the lengths
FmSynthParamsNew_NoLengthCheck(harmonics, amps, phase_per_sample, mod_depth) ==
    IF ~(phase_per_sample > 0 /\ phase_per_sample < PiUnits)
    THEN [outcome |-> "panic", message |-> "phase_per_sample must be between 0 and PI"]
    ELSE IF ~(mod_depth >= 0)
    THEN [outcome |-> "panic", message |-> "mod_depth must be non-negative"]
    ELSE [outcome |-> "returned",
          params |-> [harmonics |-> harmonics, amps |-> amps,
                      phase_per_sample |-> phase_per_sample, mod_depth |-> mod_depth]]

\* FmSynthParams::new: the three assertions, then the struct; phase_per_sample
\* in thousandths of pi, harmonics and amps by their lengths
FmSynthParamsNew(harmonics, amps, phase_per_sample, mod_depth) ==
    IF harmonics # amps
    THEN [outcome |-> "panic", message |-> "Harmonics and amps must have the same length"]
    ELSE IF ~(phase_per_sample > 0 /\ phase_per_sample < PiUnits)
    THEN [outcome |-> "panic", message |-> "phase_per_sample must be between 0 and PI"]
    ELSE IF ~(mod_depth >= 0)
    THEN [outcome |-> "panic", message |-> "mod_depth must be non-negative"]
    ELSE [outcome |-> "returned",
          params |-> [harmonics |-> harmonics, amps |-> amps,
                      phase_per_sample |-> phase_per_sample, mod_depth |-> mod_depth]]

\* FmSynthGenerator::new
FmNew(params, mod_env, wav_env) ==
    [params |-> params, mod_env |-> mod_env, wav_env |-> wav_env, sample_count |-> 0]

\* note_off that reaches the waveform envelope only
FmNoteOff_WavOnly(g) ==
    [g EXCEPT !.wav_env = AdsrNoteOff(g.wav_env)]

\* FmSynthGenerator::note_off
FmNoteOff(g) ==
    [g EXCEPT !.mod_env = AdsrNoteOff(g.mod_env),
              !.wav_env = AdsrNoteOff(g.wav_env)]

\* process that advances sample_count once per call
FmRender_CountsCalls(g, n, m, w) ==
    [gen   |-> [params |-> g.params, mod_env |-> m.env, wav_env |-> w.env,
                sample_count |-> g.sample_count + 1],
     mod_env_buffer |-> m.buffer,
     wav_env_buffer |-> w.buffer,
     wav_tags |-> w.tags,
     state |-> IF m.state = "Complete" /\ w.state = "Complete"
               THEN "Complete" ELSE "Running"]

\* process that looks at the waveform envelope only
FmRender_WavOnly(g, n, m, w) ==
    [gen   |-> [params |-> g.params, mod_env |-> m.env, wav_env |-> w.env,
                sample_count |-> g.sample_count + n],
     mod_env_buffer |-> m.buffer,
     wav_env_buffer |-> w.buffer,
     wav_tags |-> w.tags,
     state |-> IF w.state = "Complete" THEN "Complete" ELSE "Running"]

\* <FmSynthGenerator as SignalGenerator>::process after both envelopes were
\* processed, with results m (mod_env) and w (wav_env)
FmRender(g, n, m, w) ==
    [gen   |-> [params |-> g.params, mod_env |-> m.env, wav_env |-> w.env,
                sample_count |-> g.sample_count + n],
     mod_env_buffer |-> m.buffer,
     wav_env_buffer |-> w.buffer,
     wav_tags |-> w.tags,
     state |-> IF m.state = "Complete" /\ w.state = "Complete"
               THEN "Complete" ELSE "Running"]

\* <FmSynthGenerator as SignalGenerator>::process on a buffer of n samples
FmProcess(g, n) == FmRender(g, n, AdsrProcess(g.mod_env, n), AdsrProcess(g.wav_env, n))

\* is_complete that looks at the waveform envelope only
FmIsComplete_WavOnly(g) == AdsrIsComplete(g.wav_env)

\* <FmSynthGenerator as SignalGenerator>::is_complete
FmIsComplete(g) == AdsrIsComplete(g.mod_env) /\ AdsrIsComplete(g.wav_env)

\* <FmSynthGenerator as SignalGenerator>::reset; the phase accumulator, reset
\* to 0.0 with it, is a variable of its own
FmReset(g) ==
    [g EXCEPT !.mod_env = AdsrReset(g.mod_env),
              !.wav_env = AdsrReset(g.wav_env),
              !.sample_count = 0]

\* The phase accumulator.  Phases are counted in units of which ONE make a
\* quarter turn, so TwoPi units make 2*pi.  The sines of the source are not
\* computed: the value of a modulator sine or of the output sine is any of a
\* few values of [-1, 1], its ends included (the modulator of the very first
\* sample, a sine of 0.0, is 0).
QuarterTurns == 4

TwoPi == QuarterTurns * ONE

\* f32 % : the remainder has the sign of the dividend
Rem(a, b) == IF a >= 0 THEN a % b ELSE 0 - ((0 - a) % b)

\* the values of compute_modulation tried: the sum of amps[i] * sin(..), amps
\* summing to 1
ModValues == {0 - 1, 0, 1}

\* the values of phase.sin() tried, in units of 1 / ONE
SineValues == {0 - ONE, ONE}

\* the parameter sets tried: base is two_pi * phase_per_sample in quarter
\* turns (phase_per_sample in (0, PI) puts it in 1..12), mod_depth >= 0
FmParamSets == [base : {1, 5}, mod_depth : {0, 2}]

\* steps 3 and 4 of the sample loop: the phase after a sample whose
\* modulation is m and whose modulation envelope value is e / ONE
PhaseStep(p, ph, m, e) == Rem(ph + p.base * (ONE + m * p.mod_depth * e), TwoPi)

\* the phases after each sample of a buffer
RECURSIVE PhaseRun(_, _, _, _)
PhaseRun(p, ph, mods, envs) ==
    IF mods = <<>> THEN <<>>
    ELSE <<PhaseStep(p, ph, mods[1], envs[1])>>
         \o PhaseRun(p, PhaseStep(p, ph, mods[1], envs[1]), Tail(mods), Tail(envs))

\* step 5: the samples written, in units of 1 / (ONE * ONE)
OutputSamples(sines, wav_env_buffer) ==
    [i \in 1..Len(sines) |-> sines[i] * wav_env_buffer[i]]

\* ------------------------------------------------------------- VoiceManager
\* the notes the callers name (parser::Note: octave and pitch class)
N1 == [octave |-> 4, pitch_class |-> "C"]

N2 == [octave |-> 5, pitch_class |-> "E"]

Notes == {N1, N2}

KeyDirection == {"Down", "Up"}

\* every note a timeline can name: one octave digit and one of 12 pitch classes
PitchClasses ==
    <<"C", "CSharp", "D", "DSharp", "E", "F", "FSharp", "G", "GSharp", "A", "ASharp", "B">>

AllNotes == [octave : 0..9, pitch_class : {PitchClasses[i] : i \in 1..12}]

\* PitchClass::semitone
Semitone(pc) == (CHOOSE i \in 1..12 : PitchClasses[i] = pc) - 1

RECURSIVE Pow2(_)
Pow2(k) == IF k = 0 THEN 1 ELSE 2 * Pow2(k - 1)

\* Frequencies and phase increments are f32 values in the source and are
\* modelled bit for bit: the record [m, e] with 2^23 <= m < 2^24 stands for
\* m * 2^e.  Every f32 operation returns the f32 nearest to the exact result,
\* ties to the even mantissa.

\* std::f32::consts::PI, 0x40490FDB
F32Pi == [m |-> 13176795, e |-> 0 - 22]

\* q + num / den rounded to the nearest integer, ties to even
RoundTiesEven(q, num, den) ==
    IF 2 * num > den \/ (2 * num = den /\ q % 2 = 1) THEN q + 1 ELSE q

\* the f32 nearest to (p + num / den) * 2^e, for an integer p >= 2^23
F32Round(p, num, den, e) ==
    LET k == CHOOSE k \in 0..8 : p \div Pow2(k) >= Pow2(23) /\ p \div Pow2(k) < Pow2(24)
        q == RoundTiesEven(p \div Pow2(k), (p % Pow2(k)) * den + num, Pow2(k) * den)
    IN IF q = Pow2(24) THEN [m |-> Pow2(23), e |-> e + k + 1] ELSE [m |-> q, e |-> e + k]

\* the f32 product a * b: the 48-bit product of the mantissas in 12-bit
\* limbs, as hi * 2^24 + lo, then rounded
F32Mul(a, b) ==
    LET a1 == a.m \div 4096
        a0 == a.m % 4096
        b1 == b.m \div 4096
        b0 == b.m % 4096
        mid == a1 * b0 + a0 * b1
        low == (mid % 4096) * 4096 + a0 * b0
        hi == a1 * b1 + mid \div 4096 + low \div Pow2(24)
        lo == low % Pow2(24)
    IN IF hi >= Pow2(23)
       THEN F32Round(hi, lo, Pow2(24), a.e + b.e + 24)
       ELSE F32Round(2 * hi + lo \div Pow2(23), lo % Pow2(23), Pow2(23), a.e + b.e + 23)

\* the f32 quotient a / d for an integer d = odd * 2^s with 2^10 < odd < 2^14
\* (44100 = 11025 * 4): long division of the mantissa by odd, 17 more bits
\* of quotient, and the remainder for the rounding
F32DivInt(a, d) ==
    LET s == CHOOSE s \in 0..16 : d % Pow2(s) = 0 /\ (d \div Pow2(s)) % 2 = 1
        odd == d \div Pow2(s)
        x == (a.m % odd) * Pow2(17)
    IN F32Round((a.m \div odd) * Pow2(17) + x \div odd, x % odd, odd, a.e - 17 - s)

\* 2f32.powf(t / 12.0) for t = -12..107 (entry t + 13), t the f32
\* total_semitones of the notes of octaves 0..9: the mantissa of the f32
\* nearest to 2^x, x the f32 nearest to t / 12; the exponent is the integer
\* part of x.  x is exact only when t is a multiple of 3, so the entries of one pitch
\* class differ from octave to octave.
Powf2Mantissa ==
    <<8388608, 8887420, 9415894, 9975792, 10568984, 11197448,
      11863283, 12568711, 13316085, 14107901, 14946800, 15835583,
      8388608, 8887421, 9415894, 9975792, 10568984, 11197448,
      11863283, 12568711, 13316085, 14107901, 14946800, 15835583,
      8388608, 8887421, 9415894, 9975792, 10568984, 11197448,
      11863283, 12568711, 13316085, 14107901, 14946801, 15835583,
      8388608, 8887420, 9415895, 9975792, 10568983, 11197449,
      11863283, 12568710, 13316086, 14107901, 14946799, 15835584,
      8388608, 8887420, 9415895, 9975792, 10568983, 11197449,
      11863283, 12568710, 13316086, 14107901, 14946799, 15835584,
      8388608, 8887422, 9415893, 9975792, 10568985, 11197447,
      11863283, 12568712, 13316084, 14107901, 14946802, 15835581,
      8388608, 8887422, 9415893, 9975792, 10568985, 11197447,
      11863283, 12568712, 13316084, 14107901, 14946802, 15835581,
      8388608, 8887422, 9415893, 9975792, 10568985, 11197447,
      11863283, 12568712, 13316084, 14107901, 14946802, 15835581,
      8388608, 8887422, 9415893, 9975792, 10568985, 11197447,
      11863283, 12568712, 13316084, 14107901, 14946802, 15835581,
      8388608, 8887419, 9415896, 9975792, 10568981, 11197451,
      11863283, 12568708, 13316088, 14107901, 14946797, 15835587>>

\* VoiceManager::note_frequency: base_frequency * 2^(total_semitones / 12)
\* with total_semitones = (octave - 1) * 12 + semitone, in f32
NoteFrequency(note) ==
    LET t == (note.octave - 1) * 12 + Semitone(note.pitch_class)
        floor == IF t >= 0 THEN t \div 12 ELSE 0 - 1
    IN F32Round(BaseFrequency * Powf2Mantissa[t + 13], 0, 1, floor - 23)

\* VoiceManager::phase_per_sample: 2 * PI * frequency / sample_rate, in f32
PhasePerSample(frequency) ==
    F32DivInt(F32Mul([F32Pi EXCEPT !.e = @ + 1], frequency), SampleRate)

\* create_synth's increment for every note, computed once: the pairs of a
\* note and phase_per_sample(note_frequency(note))
NoteIncrements == {<<note, PhasePerSample(NoteFrequency(note))>> : note \in AllNotes}

\* the voice configurations tried: attack, decay and release in samples, sustain level
VoiceConfigs ==
    {[attack_samples |-> 2, decay_samples |-> 1, sustain_level |-> ONE \div 2, release_samples |-> 2],
     [attack_samples |-> 1, decay_samples |-> 2, sustain_level |-> ONE, release_samples |-> 1],
     [attack_samples |-> 0, decay_samples |-> 2, sustain_level |-> 0, release_samples |-> 3],
     [attack_samples |-> 1, decay_samples |-> 1, sustain_level |-> ONE \div 2, release_samples |-> 0]}

\* the voice configurations the pipeline is run with
PipeVoiceConfigs == {c \in VoiceConfigs : c.release_samples <= 2}

\* VoiceManager::create_synth: two envelopes with the same settings
CreateSynth(cfg, note) ==
    LET max_sustain == SampleRate * 60 * 60
    IN FmNew([phase_per_sample |-> (CHOOSE p \in NoteIncrements : p[1] = note)[2]],
             AdsrNew(0, cfg.attack_samples, cfg.decay_samples, cfg.sustain_level,
                     max_sustain, cfg.release_samples),
             AdsrNew(0, cfg.attack_samples, cfg.decay_samples, cfg.sustain_level,
                     max_sustain, cfg.release_samples))

\* the indices of the non-releasing voices of a note
ActiveOf(voices, note) ==
    {i \in 1..Len(voices) : voices[i].note = note /\ ~voices[i].is_releasing}

\* Iterator::find: the first index of a set of indices
FirstOf(S) == CHOOSE i \in S : \A j \in S : i <= j

\* handle_event that creates a voice on every Down
HandleEvent_NoDuplicateCheck(cfg, voices, note, direction) ==
    IF direction = "Down"
    THEN Append(voices, [note |-> note, synth |-> CreateSynth(cfg, note),
                         is_releasing |-> FALSE])
    ELSE IF ActiveOf(voices, note) = {}
         THEN voices
         ELSE LET i == FirstOf(ActiveOf(voices, note))
              IN [voices EXCEPT ![i] = [@ EXCEPT !.synth = FmNoteOff(voices[i].synth),
                                                 !.is_releasing = TRUE]]

\* handle_event whose Up takes the first voice of the note, releasing or not
HandleEvent_UpAnyVoice(cfg, voices, note, direction) ==
    IF direction = "Down"
    THEN IF ActiveOf(voices, note) # {}
         THEN voices
         ELSE Append(voices, [note |-> note, synth |-> CreateSynth(cfg, note),
                              is_releasing |-> FALSE])
    ELSE LET S == {i \in 1..Len(voices) : voices[i].note = note}
         IN IF S = {}
            THEN voices
            ELSE [voices EXCEPT ![FirstOf(S)] =
                        [@ EXCEPT !.synth = FmNoteOff(voices[FirstOf(S)].synth),
                                  !.is_releasing = TRUE]]

\* handle_event whose Up removes the voice from the pool at once
HandleEvent_UpRemovesVoice(cfg, voices, note, direction) ==
    IF direction = "Down"
    THEN IF ActiveOf(voices, note) # {}
         THEN voices
         ELSE Append(voices, [note |-> note, synth |-> CreateSynth(cfg, note),
                              is_releasing |-> FALSE])
    ELSE IF ActiveOf(voices, note) = {}
         THEN voices
         ELSE [j \in 1..(Len(voices) - 1) |->
                  IF j < FirstOf(ActiveOf(voices, note)) THEN voices[j] ELSE voices[j + 1]]

\* VoiceManager::handle_event
HandleEvent(cfg, voices, note, direction) ==
    IF direction = "Down"
    THEN IF ActiveOf(voices, note) # {}
         THEN voices
         ELSE Append(voices, [note |-> note, synth |-> CreateSynth(cfg, note),
                              is_releasing |-> FALSE])
    ELSE IF ActiveOf(voices, note) = {}
         THEN voices
         ELSE LET i == FirstOf(ActiveOf(voices, note))
              IN [voices EXCEPT ![i] = [@ EXCEPT !.synth = FmNoteOff(voices[i].synth),
                                                 !.is_releasing = TRUE]]

\* Vec::remove(i), i counted from 1
RemoveAt(seq, i) == [j \in 1..(Len(seq) - 1) |-> IF j < i THEN seq[j] ELSE seq[j + 1]]

\* for &i in completed_indices.iter().rev() { active_voices.remove(i) }
RECURSIVE RemoveReversed(_, _)
RemoveReversed(seq, indices) ==
    IF indices = <<>> THEN seq
    ELSE RemoveReversed(RemoveAt(seq, indices[Len(indices)]),
                        SubSeq(indices, 1, Len(indices) - 1))

\* the indices of a set in ascending order: the order the scan pushes them
RECURSIVE Ascending(_)
Ascending(S) ==
    IF S = {} THEN <<>>
    ELSE LET m == CHOOSE i \in S : \A j \in S : j <= i
         IN Append(Ascending(S \ {m}), m)

\* VoiceManager::process_frame: the removal after the scan; rendered[i] is
\* what voice i's synth.process returned
RemoveCompleted(voices, rendered) ==
    LET scanned == [i \in 1..Len(voices) |-> [voices[i] EXCEPT !.synth = rendered[i].gen]]
        done    == Ascending({i \in 1..Len(voices) : rendered[i].state = "Complete"})
    IN [voices |-> RemoveReversed(scanned, done), completed_indices |-> done]

\* a scan that removes a completed voice at once and goes on with the next
\* index, passing over the voice that moved into the freed place
RECURSIVE ScanRemoving(_, _, _)
ScanRemoving(voices, i, n) ==
    IF i > Len(voices) THEN voices
    ELSE IF FmProcess(voices[i].synth, n).state = "Complete"
         THEN ScanRemoving(RemoveAt(voices, i), i + 1, n)
         ELSE ScanRemoving([voices EXCEPT ![i] = [@ EXCEPT !.synth = FmProcess(voices[i].synth, n).gen]],
                           i + 1, n)

\* process_frame that removes while it scans
VmProcessFrame_RemoveMidScan(voices, n) ==
    [voices |-> ScanRemoving(voices, 1, n),
     completed_indices |->
         Ascending({i \in 1..Len(voices) : FmProcess(voices[i].synth, n).state = "Complete"})]

\* VoiceManager::process_frame on a buffer of n samples
VmProcessFrame(voices, n) ==
    IF voices = <<>>
    THEN [voices |-> voices, completed_indices |-> <<>>]
    ELSE RemoveCompleted(voices, [i \in 1..Len(voices) |-> FmProcess(voices[i].synth, n)])

\* f32::tanh is not computed exactly: TanhTable holds tanh(i / TanhKnots) for
\* i = 0..20 in units of 1 / TanhDen, rounded down, and Tanh interpolates
\* linearly between two entries (within 0.004 of tanh; the last entry from
\* 4.0 on).  Tanh(num, den) is tanh(num / den) in units of 1 / (TanhDen * den).
TanhKnots == 5

TanhDen == 100000

TanhTable ==
    <<0, 19737, 37994, 53704, 66403, 76159, 83365, 88535, 92166, 94680, 96402,
      97574, 98367, 98902, 99263, 99505, 99668, 99777, 99850, 99899, 99932>>

Tanh(num, den) ==
    LET i == (TanhKnots * num) \div den
        r == (TanhKnots * num) % den
    IN IF i + 1 >= Len(TanhTable)
       THEN TanhTable[Len(TanhTable)] * den
       ELSE TanhTable[i + 1] * den + (TanhTable[i + 2] - TanhTable[i + 1]) * r

\* the unit of a clipped sample: 1 / ClipONE, where a sample before clipping
\* is in units of 1 / ONE
ClipONE == 2 * TanhDen * ONE

\* soft_clip
SoftClip(sample) ==
    LET abs == IF sample < 0 THEN 0 - sample ELSE sample
        signum == IF sample < 0 THEN 0 - 1 ELSE 1
    IN IF abs <= ONE
       THEN 2 * TanhDen * sample
       ELSE signum * (ClipONE + Tanh(abs - ONE, ONE))

\* sample j of the mix: the voices' samples added one voice after another
RECURSIVE MixSum(_, _)
MixSum(voice_buffers, j) ==
    IF voice_buffers = <<>> THEN 0
    ELSE MixSum(SubSeq(voice_buffers, 1, Len(voice_buffers) - 1), j)
         + voice_buffers[Len(voice_buffers)][j]

\* process_frame's buffer without the final clipping
MixFrame_Unclipped(buf, voice_buffers) ==
    [j \in 1..Len(buf) |-> 2 * TanhDen * MixSum(voice_buffers, j)]

\* process_frame's buffer: cleared, left so when there is no voice, else
\* every voice's samples added and every sample clipped
MixFrame(buf, voice_buffers) ==
    LET cleared == [j \in 1..Len(buf) |-> 0]
    IN IF voice_buffers = <<>>
       THEN cleared
       ELSE [j \in 1..Len(buf) |-> SoftClip(cleared[j] + MixSum(voice_buffers, j))]

\* VoiceManager::has_active_voices
HasActiveVoices(voices) == voices # <<>>

\* ----------------------------------------------------------------- Pipeline
\* the event lists a timeline entry may carry, in list order
Ev(note, direction) == [note |-> note, direction |-> direction]

EventLists ==
    {<<>>,
     <<Ev(N1, "Down")>>,
     <<Ev(N1, "Up")>>,
     <<Ev(N1, "Down"), Ev(N2, "Down")>>,
     <<Ev(N1, "Up"), Ev(N2, "Up")>>,
     <<Ev(N1, "Up"), Ev(N1, "Down")>>}

\* parser::TimedEvents
TimedEvents == [delta : 0..MaxDelta, events : EventLists]

\* frame sizes and timestep lengths tried
FrameSizes == {1, 2, 3}

TimestepChoices == {1, 2}

\* Pipeline::new
PipelineNew(pc, evs) ==
    [current_sample        |-> 0,
     event_index           |-> 0,
     samples_to_next_event |-> IF evs # <<>> THEN evs[1].delta * pc.timestep_samples ELSE 0,
     has_more_events       |-> evs # <<>>]

\* Pipeline::is_active
IsActive(p, voices) == p.has_more_events \/ HasActiveVoices(voices)

\* the events of an entry handed to the voice manager last to first
RECURSIVE HandleAll_Reversed(_, _, _)
HandleAll_Reversed(cfg, voices, evlist) ==
    IF evlist = <<>> THEN voices
    ELSE HandleAll_Reversed(cfg,
                            HandleEvent(cfg, voices, evlist[Len(evlist)].note,
                                        evlist[Len(evlist)].direction),
                            SubSeq(evlist, 1, Len(evlist) - 1))

\* for event in &timed.events { voice_manager.handle_event(..) }
RECURSIVE HandleAll(_, _, _)
HandleAll(cfg, voices, evlist) ==
    IF evlist = <<>> THEN voices
    ELSE HandleAll(cfg, HandleEvent(cfg, voices, evlist[1].note, evlist[1].direction),
                   Tail(evlist))

\* process_events that counts the next entry's delay from the entry's absolute
\* offset instead of the dispatching frame's boundary
RECURSIVE DeltasUpTo(_, _)
DeltasUpTo(evs, k) == IF k = 0 THEN 0 ELSE evs[k].delta + DeltasUpTo(evs, k - 1)

DispatchEntry_FromOffset(pc, evs, cfg, p, voices) ==
    LET idx == p.event_index + 1
    IN [pipe   |-> IF idx >= Len(evs)
                   THEN [p EXCEPT !.event_index = idx,
                                  !.has_more_events = FALSE,
                                  !.samples_to_next_event = UsizeMax]
                   ELSE [p EXCEPT !.event_index = idx,
                                  !.samples_to_next_event =
                                      Max(DeltasUpTo(evs, idx + 1) * pc.timestep_samples
                                          - p.current_sample, 0)],
        voices |-> HandleAll(cfg, voices, evs[idx].events)]

\* process_events that clears has_more_events one entry early
DispatchEntry_StopsOneEarly(pc, evs, cfg, p, voices) ==
    LET idx == p.event_index + 1
    IN [pipe   |-> IF idx + 1 >= Len(evs)
                   THEN [p EXCEPT !.event_index = idx,
                                  !.has_more_events = FALSE,
                                  !.samples_to_next_event = UsizeMax]
                   ELSE [p EXCEPT !.event_index = idx,
                                  !.samples_to_next_event =
                                      evs[idx + 1].delta * pc.timestep_samples],
        voices |-> HandleAll(cfg, voices, evs[idx].events)]

\* Pipeline::process_events: one iteration of the while loop's body,
\* event_index counted from 0
DispatchEntry(pc, evs, cfg, p, voices) ==
    LET idx == p.event_index + 1
    IN [pipe   |-> IF idx >= Len(evs)
                   THEN [p EXCEPT !.event_index = idx,
                                  !.has_more_events = FALSE,
                                  !.samples_to_next_event = UsizeMax]
                   ELSE [p EXCEPT !.event_index = idx,
                                  !.samples_to_next_event =
                                      evs[idx + 1].delta * pc.timestep_samples],
        voices |-> HandleAll(cfg, voices, evs[idx].events)]

\* Pipeline::process_events: the while loop
RECURSIVE PipeProcessEvents(_, _, _, _, _)
PipeProcessEvents(pc, evs, cfg, p, voices) ==
    IF p.has_more_events /\ p.samples_to_next_event = 0
    THEN PipeProcessEvents(pc, evs, cfg,
                           DispatchEntry(pc, evs, cfg, p, voices).pipe,
                           DispatchEntry(pc, evs, cfg, p, voices).voices)
    ELSE [pipe |-> p, voices |-> voices]

\* advance_time whose subtraction wraps around below zero
AdvanceTime_Wrapping(p, samples) ==
    [p EXCEPT !.current_sample = p.current_sample + samples,
              !.samples_to_next_event =
                  IF p.has_more_events /\ p.samples_to_next_event > 0
                  THEN IF p.samples_to_next_event >= samples
                       THEN p.samples_to_next_event - samples
                       ELSE UsizeMax - (samples - p.samples_to_next_event - 1)
                  ELSE p.samples_to_next_event]

\* Pipeline::advance_time
AdvanceTime(p, samples) ==
    [p EXCEPT !.current_sample = p.current_sample + samples,
              !.samples_to_next_event =
                  IF p.has_more_events /\ p.samples_to_next_event > 0
                  THEN Max(p.samples_to_next_event - samples, 0)
                  ELSE p.samples_to_next_event]

\* Pipeline::process_frame after process_events returned e: rendering, then
\* advance_time
RenderAndAdvance(p, e, r, n) ==
    [pipe |-> AdvanceTime(e.pipe, n),
     voices |-> r.voices,
     voices_dispatched |-> e.voices,
     completed_indices |-> r.completed_indices,
     dispatched |-> e.pipe.event_index - p.event_index]

\* Pipeline::process_frame after process_events returned e
RenderFrame(p, e, n) == RenderAndAdvance(p, e, VmProcessFrame(e.voices, n), n)

\* process_frame that renders the pool before it dispatches the events
PipeProcessFrame_RenderFirst(pc, evs, cfg, p, voices, n) ==
    [pipe |-> AdvanceTime(PipeProcessEvents(pc, evs, cfg, p, voices).pipe, n),
     voices |-> PipeProcessEvents(pc, evs, cfg, p, VmProcessFrame(voices, n).voices).voices,
     voices_dispatched |-> PipeProcessEvents(pc, evs, cfg, p, voices).voices,
     completed_indices |-> VmProcessFrame(voices, n).completed_indices,
     dispatched |-> PipeProcessEvents(pc, evs, cfg, p, voices).pipe.event_index - p.event_index]

\* Pipeline::process_frame on a buffer of n samples
PipeProcessFrame(pc, evs, cfg, p, voices, n) ==
    RenderFrame(p, PipeProcessEvents(pc, evs, cfg, p, voices), n)

\* ------------------------------------------- the envelope driven by a caller
CountTag(ts, t) == Cardinality({i \in 1..Len(ts) : ts[i] = t})

\* the arguments of AdsrGenerator::new, in the order of its signature
NewArgs(ia, a, d, sl, sm, r) ==
    [initial_amplitude |-> ia, attack_samples |-> a, decay_samples |-> d,
     sustain_level |-> sl, sustain_max_samples |-> sm, release_samples |-> r]

\* no loop of equal buffers is running
RunIdle == [n |-> 0, calls |-> 0]

\* reset has not been called
TwinIdle == [since_reset |-> FALSE, env |-> AdsrNew(0, 1, 1, 0, 1, 1),
             buffer |-> <<>>, ret |-> "Running"]

AdsrIdle ==
    /\ adsr = AdsrNew(0, 1, 1, 0, 1, 1)
    /\ args = NewArgs(0, 1, 1, 0, 1, 1)
    /\ run = RunIdle
    /\ twin = TwinIdle
    /\ op = "new"
    /\ pre = adsr
    /\ buffer = <<>>
    /\ tags = <<>>
    /\ ret = "Running"
    /\ emitted = [amp |-> 0, tag |-> "None"]
    /\ emitted_before = emitted
    /\ sustain_emitted = 0
    /\ off_called = FALSE

\* VoiceManager::new
\* no process_frame call yet
MixIdle == [before |-> <<>>, voice_buffers |-> <<>>, after |-> <<>>]

VmNew ==
    /\ active_voices = <<>>
    /\ vm_op = [kind |-> "new", note |-> N1, direction |-> "Down", n |-> 0]
    /\ voices_before = <<>>
    /\ completed = <<>>
    /\ mix = MixIdle

VmIdle ==
    /\ config = CHOOSE c \in VoiceConfigs : c.attack_samples = 2
    /\ VmNew

\* generate_wav has not been called
WavIdle ==
    [pc |-> "idle", safety_counter |-> 0, trailing |-> 0, max_iterations |-> 0,
     warnings |-> <<>>]

PipeIdle ==
    /\ pconfig = [frame_size |-> 1, timestep_samples |-> 1]
    /\ events = <<>>
    /\ pipe = PipelineNew(pconfig, events)
    /\ dispatched_at = <<>>
    /\ release_frames = <<>>
    /\ wav = WavIdle

\* FmSynthParams::new has not been called
ParamsIdle == [harmonics |-> 0, amps |-> 0, phase_per_sample |-> 1, mod_depth |-> 0,
               result |-> [outcome |-> "none"]]

FmIdle ==
    /\ fm = FmNew([base |-> 1, mod_depth |-> 0],
                  AdsrNew(0, 1, 1, 0, 1, 1), AdsrNew(0, 1, 1, 0, 1, 1))
    /\ fm_phase = 0
    /\ fm_op = "new"
    /\ fm_pre = fm
    /\ fm_out = [state |-> "Running", mod_state |-> "Running", wav_state |-> "Running",
                 mod_tags |-> <<>>, wav_tags |-> <<>>, phases |-> <<>>, samples |-> <<>>,
                 after_reset |-> FALSE]
    /\ pnew = ParamsIdle

InitAdsr ==
    /\ \E ia \in AmpInputs, sl \in AmpInputs,
          a \in DurInputs, d \in DurInputs, sm \in DurInputs, r \in DurInputs :
          adsr = AdsrNew(ia, a, d, sl, sm, r)
    /\ op = "new"
    /\ pre = adsr
    /\ buffer = <<>>
    /\ tags = <<>>
    /\ ret = "Running"
    /\ emitted = [amp |-> adsr.current_amplitude, tag |-> "None"]
    /\ emitted_before = emitted
    /\ sustain_emitted = 0
    /\ off_called = FALSE
    /\ args = NewArgs(0, 1, 1, 0, 1, 1)
    /\ run = RunIdle
    /\ twin = TwinIdle
    /\ VmIdle
    /\ PipeIdle
    /\ FmIdle

\* note_off is called on the envelope
NoteOffCall ==
    /\ adsr' = AdsrNoteOff(adsr)
    /\ op' = "note_off"
    /\ pre' = adsr
    /\ emitted_before' = emitted
    /\ off_called' = TRUE
    /\ UNCHANGED <<buffer, tags, ret, emitted, sustain_emitted, args>>
    /\ UNCHANGED <<vm_vars, pipe_vars, fm_vars>>

\* a caller calls note_off
NoteOff == NoteOffCall /\ UNCHANGED <<run, twin>>

\* process is called on the envelope with a buffer of n samples
ProcessCall(n) ==
    \E r \in {AdsrProcess(adsr, n)} :
       /\ adsr' = r.env
       /\ op' = "process"
       /\ pre' = adsr
       /\ buffer' = r.buffer
       /\ tags' = r.tags
       /\ ret' = r.state
       /\ emitted_before' = emitted
       /\ emitted' = IF n > 0 THEN [amp |-> r.buffer[n], tag |-> r.tags[n]] ELSE emitted
       /\ sustain_emitted' = sustain_emitted + CountTag(r.tags, "Sustain")
       /\ UNCHANGED <<off_called, args>>
       /\ UNCHANGED <<vm_vars, pipe_vars, fm_vars>>

\* a caller calls process on a buffer of n samples
Process(n) == ProcessCall(n) /\ UNCHANGED <<run, twin>>

NextAdsr ==
    \/ NoteOff
    \/ \E n \in 0..MaxBuf : Process(n)

SpecAdsr == InitAdsr /\ [][NextAdsr]_vars

\* ----------------------- AdsrGenerator::new called, then the first samples
InitNew ==
    /\ \E ia \in AmpInputs, sl \in AmpInputs,
          a \in DurInputs, d \in DurInputs, sm \in DurInputs, r \in DurInputs :
          /\ args = NewArgs(ia, a, d, sl, sm, r)
          /\ adsr = AdsrNew(ia, a, d, sl, sm, r)
    /\ op = "new"
    /\ pre = adsr
    /\ buffer = <<>>
    /\ tags = <<>>
    /\ ret = "Running"
    /\ emitted = [amp |-> adsr.current_amplitude, tag |-> "None"]
    /\ emitted_before = emitted
    /\ sustain_emitted = 0
    /\ off_called = FALSE
    /\ run = RunIdle
    /\ twin = TwinIdle
    /\ VmIdle
    /\ PipeIdle
    /\ FmIdle

\* calls made until the first sample has been written
FirstNoteOff == emitted.tag = "None" /\ NoteOff

FirstProcess(n) == emitted.tag = "None" /\ Process(n)

NextNew ==
    \/ FirstNoteOff
    \/ \E n \in 0..MaxBuf : FirstProcess(n)

SpecNew == InitNew /\ [][NextNew]_vars

\* ------------- the envelope left to itself: process on buffers of one length
\* the caller gives up after this many calls
MaxRunCalls == 4 * MaxDur + 1

InitRun ==
    /\ \E ia \in {0, ONE}, sl \in {0, ONE \div 2},
          a \in DurInputs, d \in DurInputs, sm \in DurInputs, r \in DurInputs :
          adsr = AdsrNew(ia, a, d, sl, sm, r)
    /\ \E n \in 1..MaxBuf : run = [n |-> n, calls |-> 0]
    /\ op = "new"
    /\ pre = adsr
    /\ buffer = <<>>
    /\ tags = <<>>
    /\ ret = "Running"
    /\ emitted = [amp |-> adsr.current_amplitude, tag |-> "None"]
    /\ emitted_before = emitted
    /\ sustain_emitted = 0
    /\ off_called = FALSE
    /\ args = NewArgs(0, 1, 1, 0, 1, 1)
    /\ twin = TwinIdle
    /\ VmIdle
    /\ PipeIdle
    /\ FmIdle

\* the caller calls process on a buffer of the loop's length, once more after
\* the call that returned Complete
RunProcess ==
    /\ run.calls < MaxRunCalls
    /\ ~(op = "process" /\ AdsrIsComplete(pre))
    /\ ProcessCall(run.n)
    /\ run' = [run EXCEPT !.calls = @ + 1]
    /\ UNCHANGED twin

NextRun == RunProcess

SpecRun == InitRun /\ [][NextRun]_vars

\* ------------------- the envelope driven by a caller that also calls reset
InitReset ==
    /\ \E ia \in {0, ONE \div 2}, sl \in {ONE \div 2},
          a \in DurInputs, d \in DurInputs, sm \in DurInputs, r \in DurInputs :
          adsr = AdsrNew(ia, a, d, sl, sm, r)
    /\ op = "new"
    /\ pre = adsr
    /\ buffer = <<>>
    /\ tags = <<>>
    /\ ret = "Running"
    /\ emitted = [amp |-> adsr.current_amplitude, tag |-> "None"]
    /\ emitted_before = emitted
    /\ sustain_emitted = 0
    /\ off_called = FALSE
    /\ args = NewArgs(0, 1, 1, 0, 1, 1)
    /\ run = RunIdle
    /\ twin = TwinIdle
    /\ VmIdle
    /\ PipeIdle
    /\ FmIdle

\* a caller calls reset; from here on the calls are also made on an envelope
\* newly constructed with the same parameters, and the history starts again
ResetCall ==
    /\ adsr' = AdsrReset(adsr)
    /\ op' = "reset"
    /\ pre' = adsr
    /\ buffer' = <<>>
    /\ tags' = <<>>
    /\ ret' = "Running"
    /\ emitted' = [amp |-> adsr'.current_amplitude, tag |-> "None"]
    /\ emitted_before' = emitted'
    /\ sustain_emitted' = 0
    /\ off_called' = FALSE
    /\ twin' = [since_reset |-> TRUE,
                env |-> AdsrNew(adsr.initial_amplitude, adsr.attack_duration,
                                adsr.decay_duration, adsr.sustain_level,
                                adsr.sustain_max_duration, adsr.release_duration),
                buffer |-> <<>>, ret |-> "Running"]
    /\ UNCHANGED <<args, run>>
    /\ UNCHANGED <<vm_vars, pipe_vars, fm_vars>>

\* a caller calls note_off
ResetNoteOff ==
    /\ NoteOffCall
    /\ twin' = IF twin.since_reset THEN [twin EXCEPT !.env = AdsrNoteOff(twin.env)] ELSE twin
    /\ UNCHANGED run

\* a caller calls process on a buffer of n samples
ResetProcess(n) ==
    /\ ProcessCall(n)
    /\ twin' = IF twin.since_reset
               THEN [since_reset |-> TRUE,
                     env |-> AdsrProcess(twin.env, n).env,
                     buffer |-> AdsrProcess(twin.env, n).buffer,
                     ret |-> AdsrProcess(twin.env, n).state]
               ELSE twin
    /\ UNCHANGED run

NextReset ==
    \/ ResetNoteOff
    \/ \E n \in 0..MaxBuf : ResetProcess(n)
    \/ ResetCall

SpecReset == InitReset /\ [][NextReset]_vars

\* ------------------------------------- the voice manager driven by a caller
InitVm ==
    /\ config \in VoiceConfigs
    /\ VmNew
    /\ AdsrIdle
    /\ PipeIdle
    /\ FmIdle

\* a caller calls handle_event
VmHandleEvent(note, direction) ==
    \E v \in {HandleEvent(config, active_voices, note, direction)} :
       /\ Len(v) <= MaxVoices
       /\ active_voices' = v
       /\ vm_op' = [kind |-> "handle_event", note |-> note, direction |-> direction, n |-> 0]
       /\ voices_before' = active_voices
       /\ completed' = <<>>
       /\ UNCHANGED <<config, mix, adsr_vars, pipe_vars, fm_vars>>

\* a caller calls process_frame on a buffer of n samples: the voices
VmFrameCall(n) ==
    \E r \in {VmProcessFrame(active_voices, n)} :
       /\ \A i \in 1..Len(active_voices) :
            active_voices[i].synth.sample_count + n <= MaxVoiceSamples
       /\ active_voices' = r.voices
       /\ vm_op' = [kind |-> "process_frame", note |-> N1, direction |-> "Down", n |-> n]
       /\ voices_before' = active_voices
       /\ completed' = r.completed_indices
       /\ UNCHANGED <<config, adsr_vars, pipe_vars, fm_vars>>

\* the same call where the samples are not looked at
VmFrame(n) == VmFrameCall(n) /\ UNCHANGED mix

NextVm ==
    \/ \E note \in Notes, direction \in KeyDirection : VmHandleEvent(note, direction)
    \/ \E n \in 0..MaxFrame : VmFrame(n)

SpecVm == InitVm /\ [][NextVm]_vars

\* ------------------------------------------- process_frame and its buffer
\* the voice configuration whose buffers are looked at
MixConfigs == {c \in VoiceConfigs : c.attack_samples = 2}

\* the values of phase.sin() tried, whole: the two ends of [-1, 1]
MixSines == {0 - 1, 1}

\* the buffer lengths given to process_frame
MixFrames == {1, 2}

InitMix ==
    /\ config \in MixConfigs
    /\ VmNew
    /\ AdsrIdle
    /\ PipeIdle
    /\ FmIdle

\* a caller calls handle_event
MixHandleEvent(note, direction) ==
    /\ VmHandleEvent(note, direction)
    /\ Len(active_voices') <= MaxMixVoices

\* a caller calls process_frame on a buffer of n stale samples (1.0 each);
\* every voice writes its envelope times a sine
VmMixFrame(n) ==
    /\ \A i \in 1..Len(active_voices) :
          active_voices[i].synth.sample_count + n <= MaxMixSamples
    /\ VmFrameCall(n)
    /\ \E envs \in {[i \in 1..Len(active_voices) |->
                        FmProcess(active_voices[i].synth, n).wav_env_buffer]} :
          \E sines \in [1..Len(active_voices) -> [1..n -> MixSines]] :
             \E vb \in {[i \in 1..Len(active_voices) |-> OutputSamples(sines[i], envs[i])]} :
                mix' = [before |-> [j \in 1..n |-> ONE],
                        voice_buffers |-> vb,
                        after |-> MixFrame([j \in 1..n |-> ONE], vb)]

NextMix ==
    \/ \E note \in Notes, direction \in KeyDirection : MixHandleEvent(note, direction)
    \/ \E n \in MixFrames : VmMixFrame(n)

SpecMix == InitMix /\ [][NextMix]_vars

\* ------------------------------ note-on for every note a timeline can name
InitNotes ==
    /\ config \in VoiceConfigs
    /\ VmNew
    /\ AdsrIdle
    /\ PipeIdle
    /\ FmIdle

\* a caller sends Down to an empty voice manager
FirstDown(note) ==
    /\ active_voices = <<>>
    /\ VmHandleEvent(note, "Down")

NextNotes == \E note \in AllNotes : FirstDown(note)

SpecNotes == InitNotes /\ [][NextNotes]_vars

\* ------------------------------------------ the pipeline driven by a caller
InitPipe ==
    /\ config \in PipeVoiceConfigs
    /\ VmNew
    /\ pconfig \in [frame_size : FrameSizes, timestep_samples : TimestepChoices]
    /\ \E k \in 0..MaxEntries : events \in [1..k -> TimedEvents]
    /\ pipe = PipelineNew(pconfig, events)
    /\ dispatched_at = <<>>
    /\ release_frames = <<>>
    /\ wav = WavIdle
    /\ AdsrIdle
    /\ FmIdle

\* the process_frame calls each voice has been through since its Up, this
\* call included (0 for a voice that is not releasing); carried holds the
\* counts of the voices the previous call kept
CountReleaseFrames(carried, voices) ==
    [i \in 1..Len(voices) |->
        IF voices[i].is_releasing
        THEN (IF i <= Len(carried) THEN carried[i] ELSE 0) + 1
        ELSE 0]

\* Pipeline::process_frame on a buffer of frame_size samples
ProcessFrameCall ==
    \E r \in {PipeProcessFrame(pconfig, events, config, pipe, active_voices,
                               pconfig.frame_size)} :
       /\ pipe' = r.pipe
       /\ active_voices' = r.voices
       /\ vm_op' = [kind |-> "pipeline_frame", note |-> N1, direction |-> "Down",
                    n |-> pconfig.frame_size]
       /\ voices_before' = r.voices_dispatched
       /\ completed' = r.completed_indices
       /\ dispatched_at' = dispatched_at \o Fill(r.dispatched, pipe.current_sample)
       /\ release_frames' = CountReleaseFrames(RemoveReversed(release_frames, completed),
                                               r.voices_dispatched)
       /\ UNCHANGED <<config, mix, pconfig, events, adsr_vars, fm_vars>>

\* a caller calls Pipeline::process_frame
PipeFrame ==
    /\ pipe.current_sample < MaxSamples
    /\ ProcessFrameCall
    /\ UNCHANGED wav

NextPipe == PipeFrame

SpecPipe == InitPipe /\ [][NextPipe]_vars

\* ------------------------------------------------- Pipeline::generate_wav
\* the timelines rendered: k entries of delta d that press and release N1 in turn
KeyTimeline(k, d) ==
    [i \in 1..k |-> [delta |-> d,
                     events |-> IF i % 2 = 1 THEN <<Ev(N1, "Down")>> ELSE <<Ev(N1, "Up")>>]]

WavTimelines == {KeyTimeline(k, d) : k \in {0, 1, 2, 2 * LongPairs}, d \in {1, 2}}

\* the voice configurations generate_wav is run with
WavVoiceConfigs == {c \in VoiceConfigs : c.attack_samples = 2}

\* the sum of the deltas of entries lo..hi, by halves
RECURSIVE SumRange(_, _, _)
SumRange(evs, lo, hi) ==
    IF lo > hi THEN 0
    ELSE IF lo = hi THEN evs[lo].delta
    ELSE SumRange(evs, lo, (lo + hi) \div 2) + SumRange(evs, ((lo + hi) \div 2) + 1, hi)

\* self.events.iter().map(|e| e.delta).sum()
SumOfDeltas(evs) == SumRange(evs, 1, Len(evs))

\* max_iterations that leaves out the division by the frame size
MaxIterations_InSamples(pc, evs, cfg) ==
    (SumOfDeltas(evs) * pc.timestep_samples + cfg.release_samples * 2) + IterationSlack

\* max_iterations of generate_wav
MaxIterations(pc, evs, cfg) ==
    ((SumOfDeltas(evs) * pc.timestep_samples + cfg.release_samples * 2) \div pc.frame_size)
    + IterationSlack

\* generate_wav is called on a new pipeline
InitWav ==
    /\ config \in WavVoiceConfigs
    /\ VmNew
    /\ pconfig \in [frame_size : {1, DefaultFrameSize}, timestep_samples : TimestepChoices]
    /\ events \in WavTimelines
    /\ pipe = PipelineNew(pconfig, events)
    /\ dispatched_at = <<>>
    /\ release_frames = <<>>
    /\ wav = [pc |-> "main", safety_counter |-> 0, trailing |-> 0,
              max_iterations |-> MaxIterations(pconfig, events, config),
              warnings |-> <<>>]
    /\ AdsrIdle
    /\ FmIdle

\* one iteration of: while self.is_active() && safety_counter < max_iterations
MainFrame ==
    /\ wav.pc = "main"
    /\ IsActive(pipe, active_voices)
    /\ wav.safety_counter < wav.max_iterations
    /\ ProcessFrameCall
    /\ wav' = [wav EXCEPT !.safety_counter = @ + 1]

\* the while loop ends
MainExit ==
    /\ wav.pc = "main"
    /\ ~(IsActive(pipe, active_voices) /\ wav.safety_counter < wav.max_iterations)
    /\ wav' = [wav EXCEPT !.pc = "trailing"]
    /\ UNCHANGED <<pconfig, events, pipe, dispatched_at, release_frames>>
    /\ UNCHANGED <<adsr_vars, vm_vars, fm_vars>>

\* one iteration of: for _ in 0..trailing_frames
TrailingFrame ==
    /\ wav.pc = "trailing"
    /\ wav.trailing < TrailingFrames
    /\ HasActiveVoices(active_voices)
    /\ ProcessFrameCall
    /\ wav' = [wav EXCEPT !.trailing = @ + 1]

\* the for loop ends, by its range or by break
TrailingExit ==
    /\ wav.pc = "trailing"
    /\ ~(wav.trailing < TrailingFrames /\ HasActiveVoices(active_voices))
    /\ wav' = [wav EXCEPT !.pc = "done"]
    /\ UNCHANGED <<pconfig, events, pipe, dispatched_at, release_frames>>
    /\ UNCHANGED <<adsr_vars, vm_vars, fm_vars>>

NextWav == MainFrame \/ MainExit \/ TrailingFrame \/ TrailingExit

SpecWav == InitWav /\ [][NextWav]_vars

\* ----------------------------------------- the FM generator driven by a caller
\* the envelopes given to FmSynthGenerator::new
FmEnvInputs ==
    {AdsrNew(0, 1, 1, ONE \div 2, 1, 1),
     AdsrNew(0, 2, 1, ONE \div 2, 1, 2),
     AdsrNew(ONE + (ONE \div 2), 2, 1, ONE + ONE, 1, MaxDur)}

\* the buffer lengths given to FmSynthGenerator::process
FmBufferSizes == {0, 1, 2}

InitFm ==
    /\ \E p \in FmParamSets, m \in FmEnvInputs, w \in FmEnvInputs : fm = FmNew(p, m, w)
    /\ fm_phase = 0
    /\ fm_op = "new"
    /\ fm_pre = fm
    /\ fm_out = [state |-> "Running", mod_state |-> "Running", wav_state |-> "Running",
                 mod_tags |-> <<>>, wav_tags |-> <<>>, phases |-> <<>>, samples |-> <<>>,
                 after_reset |-> FALSE]
    /\ pnew = ParamsIdle
    /\ AdsrIdle
    /\ VmIdle
    /\ PipeIdle

\* a caller calls FmSynthGenerator::note_off
FmNoteOffCall ==
    /\ fm' = FmNoteOff(fm)
    /\ fm_op' = "note_off"
    /\ fm_pre' = fm
    /\ UNCHANGED <<fm_phase, fm_out, pnew>>
    /\ UNCHANGED <<adsr_vars, vm_vars, pipe_vars>>

\* a caller calls process on a buffer of n samples
FmProcessCall(n) ==
    \E m \in {AdsrProcess(fm.mod_env, n)}, w \in {AdsrProcess(fm.wav_env, n)},
       mods \in [1..n -> ModValues], sines \in [1..n -> SineValues] :
       \E r \in {FmRender(fm, n, m, w)}, phs \in {PhaseRun(fm.params, fm_phase, mods, m.buffer)} :
          /\ fm.sample_count + n <= MaxFmSamples
          /\ (fm.sample_count = 0 /\ n > 0) => mods[1] = 0   \* sin(0.0) is 0.0
          /\ fm' = r.gen
          /\ fm_phase' = IF n = 0 THEN fm_phase ELSE phs[n]
          /\ fm_op' = "process"
          /\ fm_pre' = fm
          /\ fm_out' = [state |-> r.state, mod_state |-> m.state, wav_state |-> w.state,
                        mod_tags |-> m.tags, wav_tags |-> w.tags, phases |-> phs,
                        samples |-> OutputSamples(sines, w.buffer),
                        after_reset |-> fm_out.after_reset]
          /\ UNCHANGED pnew
          /\ UNCHANGED <<adsr_vars, vm_vars, pipe_vars>>

\* a caller calls reset
FmResetCall ==
    /\ fm' = FmReset(fm)
    /\ fm_phase' = 0
    /\ fm_op' = "reset"
    /\ fm_pre' = fm
    /\ fm_out' = [fm_out EXCEPT !.after_reset = TRUE]
    /\ UNCHANGED pnew
    /\ UNCHANGED <<adsr_vars, vm_vars, pipe_vars>>

NextFm ==
    \/ FmNoteOffCall
    \/ \E n \in FmBufferSizes : FmProcessCall(n)
    \/ FmResetCall

SpecFm == InitFm /\ [][NextFm]_vars

\* ------------------------------------------- FmSynthParams::new called
\* the arguments tried: harmonics and amps of 0 to 2 elements, increments
\* around 0 and pi, modulation depths around 0
LengthInputs == {0, 1, 2}

IncrementInputs == {0 - 1, 0, 1, PiUnits \div 2, PiUnits - 1, PiUnits, PiUnits + 1}

DepthInputs == {0 - 2, 0 - 1, 0, 1, 2}

InitParams ==
    /\ \E h \in LengthInputs, a \in LengthInputs, p \in IncrementInputs, d \in DepthInputs :
          pnew = [harmonics |-> h, amps |-> a, phase_per_sample |-> p, mod_depth |-> d,
                  result |-> [outcome |-> "none"]]
    /\ fm = FmNew([base |-> 1, mod_depth |-> 0],
                  AdsrNew(0, 1, 1, 0, 1, 1), AdsrNew(0, 1, 1, 0, 1, 1))
    /\ fm_phase = 0
    /\ fm_op = "new"
    /\ fm_pre = fm
    /\ fm_out = [state |-> "Running", mod_state |-> "Running", wav_state |-> "Running",
                 mod_tags |-> <<>>, wav_tags |-> <<>>, phases |-> <<>>, samples |-> <<>>,
                 after_reset |-> FALSE]
    /\ AdsrIdle
    /\ VmIdle
    /\ PipeIdle

\* a caller calls FmSynthParams::new on the arguments
ParamsNewCall ==
    /\ pnew.result.outcome = "none"
    /\ pnew' = [pnew EXCEPT !.result =
                    FmSynthParamsNew(pnew.harmonics, pnew.amps,
                                     pnew.phase_per_sample, pnew.mod_depth)]
    /\ UNCHANGED <<fm, fm_phase, fm_op, fm_pre, fm_out>>
    /\ UNCHANGED <<adsr_vars, vm_vars, pipe_vars>>

NextParams == ParamsNewCall

SpecParams == InitParams /\ [][NextParams]_vars

\* ------------------------------------------------------ envelope properties
Rank(p) == CASE p = "None"     -> 0
             [] p = "Attack"   -> 1
             [] p = "Decay"    -> 2
             [] p = "Sustain"  -> 3
             [] p = "Release"  -> 4
             [] p = "Complete" -> 5

Sounding == {"Attack", "Decay", "Sustain"}

\* the last process call applied a pending note_off to a sounding envelope
ReleasedByNoteOff == op = "process" /\ pre.pending_note_off /\ pre.phase \in Sounding

\* C2: without note_off, when the first Release sample is emitted exactly
\* sustain_max_duration samples have been emitted in Sustain, whatever the
\* buffer lengths.
C2_SustainExactlyMax ==
    (~off_called /\ op = "process" /\ \E i \in 1..Len(tags) : tags[i] = "Release")
        => sustain_emitted = adsr.sustain_max_duration

\* C3: note_off changes the pending flag and nothing else; the next process
\* call applies it before writing any sample: its first sample is a Release
\* sample and it ends in Release or Complete.
C3_NoteOffAtFrameStart ==
    /\ op = "note_off" =>
          /\ adsr = [pre EXCEPT !.pending_note_off = TRUE]
          /\ adsr.phase = pre.phase
          /\ adsr.position = pre.position
          /\ adsr.current_amplitude = pre.current_amplitude
    /\ ReleasedByNoteOff =>
          /\ Len(tags) > 0 => tags[1] = "Release"
          /\ adsr.phase \in {"Release", "Complete"}

C3_Witness ==
    /\ ReleasedByNoteOff
    /\ pre.phase = "Decay"
    /\ pre.position > 0
    /\ Len(tags) > 1
    /\ tags[1] = "Release"

\* C4: the first Release sample after a note_off equals the amplitude at the
\* trigger instant, which is the last sample emitted before it (the initial
\* amplitude if none was emitted).
C4_ReleaseFromTriggerAmplitude ==
    (ReleasedByNoteOff /\ Len(buffer) > 0) =>
        /\ buffer[1] = pre.current_amplitude
        /\ buffer[1] = emitted_before.amp

\* C5: the phase never moves backwards, neither from call to call nor from
\* sample to sample, and Complete is terminal: process then returns Complete
\* and writes only 0.0, note_off leaves the phase Complete.
C5_PhaseForwardOnly ==
    /\ Rank(adsr.phase) >= Rank(pre.phase)
    /\ op = "process" => \A i \in 1..Len(tags) :
          /\ Rank(tags[i]) >= Rank(emitted_before.tag)
          /\ Rank(tags[i]) >= Rank(pre.phase)
          /\ Rank(adsr.phase) >= Rank(tags[i])
          /\ i > 1 => Rank(tags[i]) >= Rank(tags[i - 1])
    /\ pre.phase = "Complete" =>
          /\ adsr.phase = "Complete"
          /\ op = "process" =>
                /\ ret = "Complete"
                /\ \A i \in 1..Len(buffer) : buffer[i] = 0 /\ tags[i] = "Complete"

C5_Witness ==
    /\ op = "process"
    /\ pre.phase = "Complete"
    /\ pre.pending_note_off
    /\ Len(buffer) > 1

\* the sample emitted before sample i of the last buffer, with its phase
Before(i) == IF i = 1 THEN emitted_before
             ELSE [amp |-> buffer[i - 1], tag |-> tags[i - 1]]

\* sample i of the last buffer is the first sample of a phase entered from
\* phase "from" by the envelope itself (no note_off applied)
Transition(i, from, to) ==
    /\ op = "process"
    /\ i \in 1..Len(buffer)
    /\ Before(i).tag = from
    /\ tags[i] = to
    /\ ~(i = 1 /\ ReleasedByNoteOff)

Continuous(i) == buffer[i] = Before(i).amp

EndAmplitude(p) == CASE p = "Attack"  -> ONE
                     [] p = "Decay"   -> adsr.sustain_level
                     [] p = "Release" -> 0

Duration(p) == CASE p = "Attack"  -> adsr.attack_duration
                 [] p = "Decay"   -> adsr.decay_duration
                 [] p = "Release" -> adsr.release_duration

\* C7: the single sample of a ramp phase of length 1 is the ramp's end
\* amplitude: 1.0 for Attack, the sustain level for Decay, 0.0 for Release.
C7_OneSampleRampEnds ==
    op = "process" => \A i \in 1..Len(buffer) :
        (tags[i] \in {"Attack", "Decay", "Release"} /\ Duration(tags[i]) = 1)
            => buffer[i] = EndAmplitude(tags[i])

\* C8: every sample written and current_amplitude() lie in [0,1].
C8_AmplitudeBounds ==
    /\ adsr.current_amplitude >= 0
    /\ adsr.current_amplitude <= ONE
    /\ op = "process" => \A i \in 1..Len(buffer) : buffer[i] >= 0 /\ buffer[i] <= ONE

C8_Witness ==
    /\ op = "process"
    /\ off_called
    /\ adsr.phase = "Release"
    /\ adsr.current_amplitude > 0
    /\ adsr.current_amplitude < ONE \div 2
    /\ pre.phase = "Attack"

\* ------------------------------------------------- voice manager properties
IsHandle(direction) == vm_op.kind = "handle_event" /\ vm_op.direction = direction

\* C9: the pool holds at most one non-releasing voice per note; Down appends
\* exactly one non-releasing voice of the note when the pool has no
\* non-releasing voice of it (releasing ones do not count) and otherwise
\* changes nothing.
C9_OneSoundingVoicePerNote ==
    /\ \A note \in Notes : Cardinality(ActiveOf(active_voices, note)) <= 1
    /\ IsHandle("Down") =>
         IF ActiveOf(voices_before, vm_op.note) = {}
         THEN /\ Len(active_voices) = Len(voices_before) + 1
              /\ SubSeq(active_voices, 1, Len(voices_before)) = voices_before
              /\ active_voices[Len(active_voices)].note = vm_op.note
              /\ ~active_voices[Len(active_voices)].is_releasing
         ELSE active_voices = voices_before

C9_Witness ==
    /\ IsHandle("Down")
    /\ \E i \in 1..Len(voices_before) :
          voices_before[i].note = vm_op.note /\ voices_before[i].is_releasing
    /\ Len(active_voices) = Len(voices_before) + 1

\* the index in voices_before of the j-th voice the last process_frame kept
Kept(j) ==
    CHOOSE i \in 1..Len(voices_before) :
        /\ \A c \in 1..Len(completed) : completed[c] # i
        /\ Cardinality({k \in 1..i : \A c \in 1..Len(completed) : completed[c] # k}) = j

\* one note_off forwarded to a synth: both envelopes pending, nothing else changed
Released(g) ==
    [g EXCEPT !.mod_env.pending_note_off = TRUE, !.wav_env.pending_note_off = TRUE]

\* C10: Up changes nothing when the note has no non-releasing voice;
\* otherwise it forwards one note_off to the single non-releasing voice of the
\* note and marks it releasing, every other voice and the voice count being
\* unchanged.  A releasing voice stays releasing for as long as it is in the pool.
C10_UpReleasesTheSoundingVoice ==
    /\ IsHandle("Up") =>
         IF ActiveOf(voices_before, vm_op.note) = {}
         THEN active_voices = voices_before
         ELSE /\ Cardinality(ActiveOf(voices_before, vm_op.note)) = 1
              /\ Len(active_voices) = Len(voices_before)
              /\ \A i \in 1..Len(voices_before) :
                    IF i \in ActiveOf(voices_before, vm_op.note)
                    THEN /\ active_voices[i].is_releasing
                         /\ active_voices[i].note = vm_op.note
                         /\ active_voices[i].synth = Released(voices_before[i].synth)
                    ELSE active_voices[i] = voices_before[i]
    /\ vm_op.kind = "handle_event" =>
         \A i \in 1..Len(voices_before) :
            voices_before[i].is_releasing => active_voices[i].is_releasing
    /\ vm_op.kind = "process_frame" =>
         /\ Len(active_voices) = Len(voices_before) - Len(completed)
         /\ \A j \in 1..Len(active_voices) :
               /\ active_voices[j].note = voices_before[Kept(j)].note
               /\ active_voices[j].is_releasing = voices_before[Kept(j)].is_releasing

C10_Witness ==
    /\ IsHandle("Up")
    /\ ActiveOf(voices_before, vm_op.note) = {2}
    /\ voices_before[1].note = vm_op.note
    /\ voices_before[1].is_releasing
    /\ ~voices_before[1].synth.wav_env.pending_note_off
    /\ active_voices[2].is_releasing

\* ------------------------------------------------------ scheduler properties
RECURSIVE SumDeltas(_)
SumDeltas(k) == IF k = 0 THEN 0 ELSE events[k].delta + SumDeltas(k - 1)

\* the absolute sample offset of timeline entry k
Offset(k) == pconfig.timestep_samples * SumDeltas(k)

\* C1: every entry is dispatched at the first frame boundary at or after its
\* absolute offset: never before the offset, less than one frame after it,
\* and no entry is still waiting once such a boundary has started a frame.
C1_DispatchAtFirstBoundaryAfterOffset ==
    /\ \A k \in 1..Len(dispatched_at) :
          /\ dispatched_at[k] >= Offset(k)
          /\ dispatched_at[k] - Offset(k) < pconfig.frame_size
    /\ \A k \in (Len(dispatched_at) + 1)..Len(events) :
          pipe.current_sample > 0 => Offset(k) > pipe.current_sample - pconfig.frame_size

\* the voices of voices_before whose oscillator returns Complete on n samples
CompletingIn(n) ==
    {i \in 1..Len(voices_before) : FmProcess(voices_before[i].synth, n).state = "Complete"}

\* C11: the voice count decreases only inside process_frame, and there by
\* exactly the number of voices whose oscillator returned Complete in that
\* call; handle_event never removes a voice.
C11_CountDecreasesOnlyOnCompletion ==
    /\ vm_op.kind = "handle_event" =>
         /\ Len(active_voices) >= Len(voices_before)
         /\ \A i \in 1..Len(voices_before) : active_voices[i].note = voices_before[i].note
    /\ vm_op.kind = "process_frame" =>
         /\ Len(active_voices) = Len(voices_before) - Cardinality(CompletingIn(vm_op.n))
         /\ { completed[c] : c \in 1..Len(completed) } = CompletingIn(vm_op.n)
         /\ CompletingIn(vm_op.n) = {} => Len(active_voices) = Len(voices_before)

C11_Witness ==
    /\ vm_op.kind = "process_frame"
    /\ Len(voices_before) = 2
    /\ Len(active_voices) = 1
    /\ completed = <<1>>

\* ceil(a / b) for b >= 1
CeilDiv(a, b) == (a + b - 1) \div b

\* the number of process_frame calls a release of the configured length takes
ReleaseCalls == CeilDiv(Max(config.release_samples, 1), pconfig.frame_size)

\* C12: with a constant frame length, a voice that has received Up is removed
\* by the ceil(R / N)-th process_frame call after the Up, R being
\* max(release_samples, 1), and by no earlier call, whatever phase it was
\* released in.
C12_ReleasedVoiceRemovedAfterRelease ==
    vm_op.kind = "pipeline_frame" =>
        /\ Len(release_frames) = Len(voices_before)
        /\ \A i \in 1..Len(voices_before) :
              /\ voices_before[i].is_releasing =>
                    /\ release_frames[i] >= 1
                    /\ release_frames[i] <= ReleaseCalls
                    /\ (\E c \in 1..Len(completed) : completed[c] = i)
                           <=> release_frames[i] = ReleaseCalls
              /\ ~voices_before[i].is_releasing =>
                    ~(\E c \in 1..Len(completed) : completed[c] = i)

\* a release spanning two calls ends at the second call after the Up, the Up
\* having been dispatched in a later frame than the first entry
C12_Witness ==
    /\ vm_op.kind = "pipeline_frame"
    /\ ReleaseCalls = 2
    /\ \E c \in 1..Len(completed) : release_frames[completed[c]] = 2
    /\ dispatched_at[Len(dispatched_at)] > dispatched_at[1] + 1

\* ------------------------------------------------- FM generator properties
\* C13: process returns Complete exactly when both envelopes returned
\* Complete in that call; while either envelope is in Attack, Decay, Sustain
\* or Release after the call it returned Running.
C13_CompleteIffBothEnvelopesComplete ==
    fm_op = "process" =>
        /\ fm_out.state = "Complete"
              <=> (fm_out.mod_state = "Complete" /\ fm_out.wav_state = "Complete")
        /\ fm_out.mod_state = "Complete" <=> fm.mod_env.phase = "Complete"
        /\ fm_out.wav_state = "Complete" <=> fm.wav_env.phase = "Complete"
        /\ (fm.mod_env.phase # "Complete" \/ fm.wav_env.phase # "Complete")
              => fm_out.state = "Running"

\* envelopes of different release lengths: one has completed, the other is
\* still releasing
C13_Witness ==
    /\ fm_op = "process"
    /\ fm.mod_env.release_duration # fm.wav_env.release_duration
    /\ fm.wav_env.phase = "Complete"
    /\ fm.mod_env.phase = "Release"
    /\ fm_out.state = "Running"

\* C14: after every process call the phase accumulator is in [0, 2*pi), as
\* is the phase after every sample of the call, for all valid parameters,
\* those making the instantaneous frequency negative included.
C14_PhaseWrapped ==
    /\ fm_phase >= 0
    /\ fm_phase < TwoPi
    /\ \A i \in 1..Len(fm_out.phases) : fm_out.phases[i] >= 0 /\ fm_out.phases[i] < TwoPi

\* C15: every sample process writes has magnitude at most 1.0 (ONE * ONE in
\* the units of OutputSamples), whatever the parameters and the envelope state.
C15_OutputMagnitudeAtMostOne ==
    \A i \in 1..Len(fm_out.samples) :
        /\ fm_out.samples[i] <= ONE * ONE
        /\ fm_out.samples[i] >= 0 - (ONE * ONE)

\* a full-scale sample from an envelope built with out-of-range amplitudes
C15_Witness ==
    /\ fm_op = "process"
    /\ fm_pre.wav_env.initial_amplitude = ONE
    /\ fm_pre.wav_env.sustain_level = ONE
    /\ \E i \in 1..Len(fm_out.samples) : fm_out.samples[i] = 0 - (ONE * ONE)
    /\ \E i \in 1..Len(fm_out.samples) : fm_out.samples[i] = ONE * ONE

\* C16: every oscillator handle_event creates has a base phase increment
\* strictly between 0 and PI, for every note a timeline can name.
C16_PhaseIncrementInRange ==
    \A i \in 1..Len(active_voices) :
        LET p == active_voices[i].synth.params.phase_per_sample
        IN /\ p.m > 0
           /\ p.e < F32Pi.e \/ (p.e = F32Pi.e /\ p.m < F32Pi.m)

\* an envelope that a pending note_off releases at the next process call
Releasable(e) == e.pending_note_off /\ e.phase \in Sounding

\* the envelope e_pre was released by a process call that left it as e and
\* wrote samples of the phases ts
ReleasedAtFirstSample(e_pre, e, ts) ==
    Releasable(e_pre) =>
        /\ e.phase \in {"Release", "Complete"}
        /\ ~e.pending_note_off
        /\ \A i \in 1..Len(ts) : ts[i] \in {"Release", "Complete"}
        /\ ts # <<>> => ts[1] = "Release"

\* C17: note_off sets the pending release of both envelopes in one call and
\* changes nothing else; at the next process call every envelope that is in
\* Attack, Decay or Sustain enters Release with the first sample of the buffer.
C17_NoteOffReachesBothEnvelopes ==
    /\ fm_op = "note_off" =>
          /\ fm.mod_env = [fm_pre.mod_env EXCEPT !.pending_note_off = TRUE]
          /\ fm.wav_env = [fm_pre.wav_env EXCEPT !.pending_note_off = TRUE]
          /\ fm.sample_count = fm_pre.sample_count
    /\ fm_op = "process" =>
          /\ ReleasedAtFirstSample(fm_pre.mod_env, fm.mod_env, fm_out.mod_tags)
          /\ ReleasedAtFirstSample(fm_pre.wav_env, fm.wav_env, fm_out.wav_tags)
          /\ (Releasable(fm_pre.wav_env) /\ fm_pre.mod_env.phase \in Sounding)
                => Releasable(fm_pre.mod_env)

\* both envelopes released by one process call, out of different phases
C17_Witness ==
    /\ fm_op = "process"
    /\ Releasable(fm_pre.mod_env)
    /\ Releasable(fm_pre.wav_env)
    /\ fm_pre.mod_env.phase # fm_pre.wav_env.phase
    /\ fm_out.mod_tags # <<>>
    /\ fm_out.mod_tags[1] = "Release"
    /\ fm_out.wav_tags[1] = "Release"

\* ------------------------------------------------- render loop properties
\* the frame bound of the main loop:
\* (sum of deltas * timestep_samples + 2 * release_samples) / frame_size + 1000
MainLoopBound ==
    ((SumOfDeltas(events) * pconfig.timestep_samples + 2 * config.release_samples)
        \div pconfig.frame_size) + 1000

\* how far generate_wav has got: the loop it is in, then the frames rendered
LoopRank == CASE wav.pc = "main" -> 1 [] wav.pc = "trailing" -> 2 [] OTHER -> 3

FramesRendered == wav.safety_counter + wav.trailing

\* one step of generate_wav: one more frame in the same loop, or a loop left
\* for good with no frame rendered
LoopStep ==
    \/ LoopRank' > LoopRank /\ FramesRendered' = FramesRendered
    \/ LoopRank' = LoopRank /\ FramesRendered' = FramesRendered + 1

\* C18: generate_wav's loops terminate for every timeline and configuration:
\* the main loop renders at most MainLoopBound frames and the trailing loop
\* at most 10 more, and every step either renders one more frame within
\* these bounds or leaves a loop for good, so no run has more than
\* MainLoopBound + 10 + 2 steps.
C18_RenderLoopTerminates ==
    /\ [](/\ wav.pc \in {"main", "trailing", "done"}
          /\ wav.safety_counter <= MainLoopBound
          /\ wav.trailing <= 10
          /\ wav.pc = "main" => wav.trailing = 0
          /\ pipe.current_sample = FramesRendered * pconfig.frame_size)
    /\ [][LoopStep]_vars

\* a Down that never receives Up: both loops run to their caps
C18_Witness ==
    /\ wav.pc = "done"
    /\ active_voices # <<>>
    /\ ~active_voices[1].is_releasing
    /\ wav.safety_counter = MainLoopBound
    /\ wav.trailing = 10

\* every Down of the timeline is followed by an Up of the same note
AllReleased ==
    \A i \in 1..Len(events) : \A a \in 1..Len(events[i].events) :
        events[i].events[a].direction = "Down" =>
            \E j \in i..Len(events) : \E b \in 1..Len(events[j].events) :
                /\ j > i \/ b > a
                /\ events[j].events[b] = Ev(events[i].events[a].note, "Up")

\* C19: when generate_wav's loops end on a timeline whose notes are all
\* released, every entry has been dispatched and the voice pool is empty.
C19_ReleasedTimelineRenderedWhole ==
    (wav.pc = "done" /\ AllReleased) =>
        /\ pipe.event_index = Len(events)
        /\ ~pipe.has_more_events
        /\ active_voices = <<>>

\* ------------------------------------------------- Pipeline::is_active
\* C20: in every reachable pipeline state is_active() holds exactly when an
\* entry has not yet been dispatched or the voice pool is non-empty:
\* has_more_events holds iff event_index is below the number of entries,
\* event_index never exceeds that number, and a pipeline built from an empty
\* timeline is inactive.
C20_ActiveIffEntriesOrVoicesRemain ==
    /\ pipe.event_index <= Len(events)
    /\ pipe.has_more_events <=> pipe.event_index < Len(events)
    /\ IsActive(pipe, active_voices) <=>
           (pipe.event_index < Len(events) \/ Len(active_voices) > 0)
    /\ events = <<>> => ~IsActive(pipe, active_voices)

\* every entry dispatched, the last one in this frame, and a voice still sounds
C20_Witness ==
    /\ Len(events) = MaxEntries
    /\ pipe.event_index = Len(events)
    /\ pipe.current_sample > 0
    /\ dispatched_at # <<>>
    /\ ~pipe.has_more_events
    /\ Len(active_voices) > 0
    /\ IsActive(pipe, active_voices)

\* ------------------------------------------------- dispatch order
\* the events of entries lo..hi of the timeline, in timeline and list order
RECURSIVE FlatEvents(_, _)
FlatEvents(lo, hi) == IF lo > hi THEN <<>> ELSE FlatEvents(lo, hi - 1) \o events[hi].events

\* the pool after handle_event was called for each event of a list, in order
RECURSIVE HandedInOrder(_, _)
HandedInOrder(voices, evlist) ==
    IF evlist = <<>> THEN voices
    ELSE HandleEvent(config, HandedInOrder(voices, SubSeq(evlist, 1, Len(evlist) - 1)),
                     evlist[Len(evlist)].note, evlist[Len(evlist)].direction)

\* one process_frame call dispatches the entries that follow those already
\* dispatched, in order and without gap, hands their events over in timeline
\* and list order, stops only in front of an entry with a positive delta, and
\* renders the pool these events leave
DispatchStep ==
    /\ pipe'.event_index >= pipe.event_index
    /\ pipe'.event_index <= Len(events)
    /\ Len(dispatched_at') = pipe'.event_index
    /\ \A k \in 1..pipe.event_index : dispatched_at'[k] = dispatched_at[k]
    /\ \A k \in (pipe.event_index + 1)..pipe'.event_index :
          dispatched_at'[k] = pipe.current_sample
    /\ voices_before' =
          HandedInOrder(active_voices, FlatEvents(pipe.event_index + 1, pipe'.event_index))
    /\ (pipe'.event_index > pipe.event_index /\ pipe'.event_index < Len(events))
          => events[pipe'.event_index + 1].delta > 0
    /\ active_voices' = VmProcessFrame(voices_before', pconfig.frame_size).voices

\* C21: entries are dispatched in timeline order, each exactly once, their
\* events handed to the voice manager in list order; the entries with delta 0
\* that directly follow a dispatched entry are dispatched in the same
\* process_frame call, before the frame is rendered.
C21_DispatchInOrderChordsTogether == [][DispatchStep]_vars

\* two entries dispatched by one call, the second with delta 0; the order of
\* the events decides the pool
C21_Witness ==
    /\ vm_op.kind = "pipeline_frame"
    /\ Len(events) = 2
    /\ events[2].delta = 0
    /\ Len(dispatched_at) = 2
    /\ dispatched_at[1] = dispatched_at[2]
    /\ dispatched_at[1] > 0
    /\ events[1].events = <<Ev(N1, "Down"), Ev(N2, "Down")>>
    /\ events[2].events = <<Ev(N1, "Up"), Ev(N1, "Down")>>
    /\ Len(voices_before) = 3

\* ------------------------------------------------- parameter construction
\* C22: a negative modulation depth given to FmSynthParams::new is clamped:
\* the call returns normally, with parameters whose mod_depth is >= 0.
C22_NegativeDepthClamped ==
    (pnew.result.outcome # "none" /\ pnew.mod_depth < 0
        /\ pnew.harmonics = pnew.amps
        /\ pnew.phase_per_sample > 0 /\ pnew.phase_per_sample < PiUnits) =>
        /\ pnew.result.outcome = "returned"
        /\ pnew.result.params.mod_depth >= 0

\* ------------------------------------------------- envelope construction
\* C23: AdsrGenerator::new stores a duration given as 0 as 1 and any other as
\* given, and clamps the initial amplitude and the sustain level into [0,1];
\* with attack given as 0 the Attack phase lasts exactly 1 sample: a process
\* call writes at most one Attack sample, the first call on a non-empty
\* buffer writes it first (unless note_off came first), and after that call
\* the phase is Decay or later.
C23_ZeroDurationsFloored ==
    /\ adsr.attack_duration = (IF args.attack_samples = 0 THEN 1 ELSE args.attack_samples)
    /\ adsr.decay_duration = (IF args.decay_samples = 0 THEN 1 ELSE args.decay_samples)
    /\ adsr.sustain_max_duration =
          (IF args.sustain_max_samples = 0 THEN 1 ELSE args.sustain_max_samples)
    /\ adsr.release_duration = (IF args.release_samples = 0 THEN 1 ELSE args.release_samples)
    /\ adsr.initial_amplitude >= 0 /\ adsr.initial_amplitude <= ONE
    /\ adsr.sustain_level >= 0 /\ adsr.sustain_level <= ONE
    /\ (args.initial_amplitude >= 0 /\ args.initial_amplitude <= ONE)
          => adsr.initial_amplitude = args.initial_amplitude
    /\ (args.sustain_level >= 0 /\ args.sustain_level <= ONE)
          => adsr.sustain_level = args.sustain_level
    /\ op = "new" => adsr.phase = "Attack" /\ adsr.position = 0
    /\ (op = "process" /\ args.attack_samples = 0 /\ Len(buffer) > 0) =>
          /\ Rank(adsr.phase) >= Rank("Decay")
          /\ \A i \in 2..Len(tags) : tags[i] # "Attack"
          /\ tags[1] = "Attack" <=> (pre.phase = "Attack" /\ ~pre.pending_note_off)
          /\ pre.phase = "Attack" => emitted_before.tag = "None"

C23_Witness ==
    /\ op = "process"
    /\ args.attack_samples = 0
    /\ args.release_samples = 0
    /\ args.initial_amplitude > ONE
    /\ args.sustain_level < 0
    /\ Len(tags) >= 2
    /\ tags[1] = "Attack"
    /\ tags[2] = "Decay"
    /\ adsr.release_duration = 1

\* ------------------------------------------------- truncation by the cap
\* the main loop of generate_wav has just ended
MainLoopEnded == wav.pc = "trailing" /\ wav.trailing = 0

\* C24: when the main loop of generate_wav ends by the iteration cap with the
\* pipeline still active, a warning has been reported; when it ends with the
\* pipeline inactive, none has.
C24_TruncationWarned ==
    MainLoopEnded =>
        (wav.warnings # <<>> <=> IsActive(pipe, active_voices))

\* ------------------------------------------------- the completed envelope
\* C25: whenever the phase is Complete, current_amplitude() is 0.0.
C25_CompleteMeansSilent ==
    adsr.phase = "Complete" => adsr.current_amplitude = 0

\* ------------------------------------------------- collect, then remove
\* what voice i of voices_before looks like after one synth.process call on
\* the buffer of the last process_frame
RenderedOnce(i) ==
    [voices_before[i] EXCEPT !.synth = FmProcess(voices_before[i].synth, vm_op.n).gen]

\* the number of voices among the first i of voices_before that did not
\* return Complete
RECURSIVE KeptUpTo(_)
KeptUpTo(i) ==
    IF i = 0 THEN 0
    ELSE KeptUpTo(i - 1)
         + (IF FmProcess(voices_before[i].synth, vm_op.n).state = "Complete" THEN 0 ELSE 1)

OscillatorComplete(v) ==
    v.synth.mod_env.phase = "Complete" /\ v.synth.wav_env.phase = "Complete"

\* C26: process_frame renders every voice of the pool exactly once, voices
\* behind a completing voice included, then removes exactly the voices whose
\* oscillator returned Complete, keeping the order of the others; no voice
\* left in the pool has a Complete oscillator.
C26_CollectThenRemove ==
    vm_op.kind = "process_frame" =>
        /\ Len(active_voices) = KeptUpTo(Len(voices_before))
        /\ \A i \in 1..Len(voices_before) :
              IF FmProcess(voices_before[i].synth, vm_op.n).state = "Complete"
              THEN \E c \in 1..Len(completed) : completed[c] = i
              ELSE /\ active_voices[KeptUpTo(i)] = RenderedOnce(i)
                   /\ ~(\E c \in 1..Len(completed) : completed[c] = i)
        /\ \A c \in 1..Len(completed) :
              /\ completed[c] \in 1..Len(voices_before)
              /\ c > 1 => completed[c - 1] < completed[c]
        /\ \A j \in 1..Len(active_voices) : ~OscillatorComplete(active_voices[j])

\* the first voice completes and the voice behind it is rendered and kept
C26_Witness ==
    /\ vm_op.kind = "process_frame"
    /\ vm_op.n > 0
    /\ Len(voices_before) = 2
    /\ completed = <<1>>
    /\ Len(active_voices) = 1
    /\ active_voices[1].note = voices_before[2].note
    /\ active_voices[1].synth.sample_count = voices_before[2].synth.sample_count + vm_op.n
    /\ OscillatorComplete(RenderedOnce(1))

\* ------------------------------------------------- dispatch, render, advance
\* in the step to the next state: voice i of the pool handed to rendering
\* was created by a Down of this frame
CreatedNow(i) == i > Len(active_voices)

\* ... was given Up in this frame
ReleasedNow(i) ==
    /\ voices_before'[i].is_releasing
    /\ CreatedNow(i) \/ ~active_voices[i].is_releasing

\* ... and what rendering it on the frame's buffer gives
FrameOf(i) == FmProcess(voices_before'[i].synth, pconfig.frame_size)

\* the voice rendered is in the pool after the call unless it completed
RenderedThisFrame(i) ==
    \/ FrameOf(i).state = "Complete"
    \/ \E j \in 1..Len(active_voices') :
          /\ active_voices'[j].note = voices_before'[i].note
          /\ active_voices'[j].synth = FrameOf(i).gen

NewVoiceUnplayed(i) ==
    /\ voices_before'[i].synth.sample_count = 0
    /\ voices_before'[i].synth.wav_env.phase = "Attack"
    /\ voices_before'[i].synth.wav_env.position = 0

\* C27: process_frame dispatches, then renders, then advances: every voice
\* created by a Down of the frame is rendered in it starting with its first
\* Attack sample, every voice given Up in the frame starts the frame with its
\* first Release sample, and current_sample grows by the buffer length.
C27_DispatchRenderAdvance ==
    [][/\ pipe'.current_sample = pipe.current_sample + pconfig.frame_size
       /\ \A i \in 1..Len(voices_before') :
             /\ RenderedThisFrame(i)
             /\ CreatedNow(i) => NewVoiceUnplayed(i) /\ FrameOf(i).wav_tags[1] = "Attack"
             /\ ReleasedNow(i) => FrameOf(i).wav_tags[1] = "Release"]_vars

\* C27 as amended: the same, a voice created by a Down of the frame starting
\* with its first Attack sample unless it is also given Up in that frame; it
\* then starts with its first Release sample and writes no Attack sample.
C27_DispatchRenderAdvanceUnlessReleased ==
    [][/\ pipe'.current_sample = pipe.current_sample + pconfig.frame_size
       /\ \A i \in 1..Len(voices_before') :
             /\ RenderedThisFrame(i)
             /\ CreatedNow(i) => NewVoiceUnplayed(i)
             /\ (CreatedNow(i) /\ ~ReleasedNow(i)) => FrameOf(i).wav_tags[1] = "Attack"
             /\ ReleasedNow(i) =>
                   /\ FrameOf(i).wav_tags[1] = "Release"
                   /\ \A k \in 1..pconfig.frame_size : FrameOf(i).wav_tags[k] # "Attack"]_vars

\* a frame that gives Up to a sounding voice and creates another one
C27_Witness ==
    /\ vm_op.kind = "pipeline_frame"
    /\ pipe.current_sample > pconfig.frame_size
    /\ \E i \in 1..Len(voices_before), k \in 1..Len(voices_before) :
          /\ voices_before[i].is_releasing
          /\ voices_before[i].synth.wav_env.pending_note_off
          /\ voices_before[i].synth.sample_count > 0
          /\ voices_before[k].synth.sample_count = 0
          /\ ~voices_before[k].is_releasing
          /\ \E j \in 1..Len(active_voices) :
                /\ active_voices[j].synth.sample_count = pconfig.frame_size
                /\ active_voices[j].synth.wav_env.phase \in {"Attack", "Decay"}

\* ------------------------------------------------- the countdown
\* C28: a new pipeline's countdown is the first entry's delta times
\* timestep_samples; a process_frame call that starts with entries remaining
\* and a countdown above 0 dispatches nothing, leaves event_index and the
\* pool's membership alone and lowers the countdown by the buffer length,
\* stopping at 0.
C28_CountdownSaturates ==
    /\ [](pipe.current_sample = 0 =>
            /\ pipe.event_index = 0
            /\ pipe.samples_to_next_event =
                  (IF Len(events) > 0 THEN events[1].delta * pconfig.timestep_samples ELSE 0))
    /\ [][(pipe.has_more_events /\ pipe.samples_to_next_event > 0) =>
            /\ pipe'.event_index = pipe.event_index
            /\ pipe'.has_more_events
            /\ dispatched_at' = dispatched_at
            /\ voices_before' = active_voices
            /\ pipe'.samples_to_next_event >= 0
            /\ pipe'.samples_to_next_event =
                  (IF pipe.samples_to_next_event > pconfig.frame_size
                   THEN pipe.samples_to_next_event - pconfig.frame_size ELSE 0)]_vars

\* a countdown shorter than one frame has stopped at 0 and nothing was
\* dispatched yet
C28_Witness ==
    /\ vm_op.kind = "pipeline_frame"
    /\ pipe.current_sample = pconfig.frame_size
    /\ pipe.has_more_events
    /\ pipe.event_index = 0
    /\ pipe.samples_to_next_event = 0
    /\ events[1].delta > 0
    /\ events[1].delta * pconfig.timestep_samples < pconfig.frame_size

\* ------------------------------------------------- the sounding stream
\* the number of samples a sounding envelope has written, read off its phase
\* and its positions
StreamPos(e) ==
    CASE e.phase = "Attack"  -> e.position
      [] e.phase = "Decay"   -> e.attack_duration + e.position
      [] e.phase = "Sustain" -> e.attack_duration + e.decay_duration + e.sustain_position

DueAt(k) ==
    (IF k = 1 THEN 0 ELSE dispatched_at[k - 1])
    + pconfig.frame_size
      * CeilDiv(events[k].delta * pconfig.timestep_samples, pconfig.frame_size)

\* C30: with a constant frame length every entry is dispatched exactly
\* ceil(delta * timestep_samples / N) frames after the frame that dispatched
\* the entry before it (after the first frame for the first entry), and so
\* never at a frame start before its absolute offset; an entry not yet
\* dispatched is not yet due.
C30_DispatchFramesAfterPrevious ==
    /\ \A k \in 1..Len(dispatched_at) :
          /\ dispatched_at[k] = DueAt(k)
          /\ dispatched_at[k] >= Offset(k)
    /\ Len(dispatched_at) < Len(events) =>
          pipe.current_sample <= DueAt(Len(dispatched_at) + 1)

\* the second entry is dispatched a whole frame or more after its offset
C30_Witness ==
    /\ Len(dispatched_at) = 2
    /\ pconfig.frame_size = 3
    /\ events[1].delta > 0
    /\ events[2].delta > 0
    /\ dispatched_at[2] = DueAt(2)
    /\ dispatched_at[2] >= Offset(2) + pconfig.frame_size

\* ------------------------------------------------- calls until Complete
\* C31: without note_off and with buffers of one length N >= 1, process
\* returns Complete for the first time on call number
\* ceil((A + D + S) / N) + ceil(R / N) and Running on every earlier call (and
\* Complete on the call after it), so every envelope completes after
\* finitely many non-empty calls.
C31_CompleteAfterCeilCalls ==
    op = "process" =>
        /\ ret = "Complete" <=>
              run.calls >= CeilDiv(adsr.attack_duration + adsr.decay_duration
                                     + adsr.sustain_max_duration, run.n)
                           + CeilDiv(adsr.release_duration, run.n)
        /\ run.calls <= 4 * MaxDur + 1

\* the sounding part and the release both end inside a buffer: 3 calls of 2
\* samples for 5 sounding samples, 2 for 3 release samples
C31_Witness ==
    /\ op = "process"
    /\ ret = "Complete"
    /\ run.n = 2
    /\ run.calls = 5
    /\ adsr.attack_duration + adsr.decay_duration + adsr.sustain_max_duration = 5
    /\ adsr.release_duration = 3
    /\ pre.phase = "Release"
    /\ sustain_emitted > adsr.sustain_max_duration

\* ------------------------------------------------- Complete and is_complete
\* C32: after any sequence of process, note_off and reset calls a process
\* call of the FM generator returns Complete exactly when is_complete() holds
\* right after it, and so does the process call of each of its two
\* AdsrGenerators; a call that returned Running leaves is_complete() false,
\* whatever ended inside the buffer.
C32_CompleteIffIsComplete ==
    fm_op = "process" =>
        /\ fm_out.state = "Complete" <=> FmIsComplete(fm)
        /\ fm_out.mod_state = "Complete" <=> AdsrIsComplete(fm.mod_env)
        /\ fm_out.wav_state = "Complete" <=> AdsrIsComplete(fm.wav_env)
        /\ fm_out.state = "Running" => ~FmIsComplete(fm)

\* after a reset: one buffer holds the whole release of the waveform
\* envelope and its completion, the modulation envelope is still releasing,
\* and the call returned Running
C32_Witness ==
    /\ fm_op = "process"
    /\ fm_out.after_reset
    /\ fm.sample_count < MaxFmSamples
    /\ fm_pre.sample_count = 0
    /\ fm_pre.wav_env.pending_note_off
    /\ fm_out.wav_tags = <<"Release", "Complete">>
    /\ fm_out.wav_state = "Complete"
    /\ fm_out.mod_state = "Running"
    /\ fm_out.state = "Running"
    /\ ~FmIsComplete(fm)
    /\ fm_out.phases # <<>>

\* ------------------------------------------------- reset
\* C35: reset, called in any phase and with or without a pending note_off,
\* leaves the envelope in Attack at position 0 with the current amplitude
\* equal to the initial amplitude, no pending release and its parameters as
\* they were; every later process call then writes the samples and returns
\* the state that the same calls give on a newly constructed envelope with
\* these parameters, and phase(), current_amplitude() and is_complete()
\* agree with it after every call.
C35_ResetIsLikeNew ==
    /\ op = "reset" =>
          /\ adsr.phase = "Attack"
          /\ adsr.position = 0
          /\ adsr.current_amplitude = adsr.initial_amplitude
          /\ ~adsr.pending_note_off
          /\ ~AdsrIsComplete(adsr)
          /\ adsr.initial_amplitude = pre.initial_amplitude
          /\ adsr.attack_duration = pre.attack_duration
          /\ adsr.decay_duration = pre.decay_duration
          /\ adsr.sustain_level = pre.sustain_level
          /\ adsr.sustain_max_duration = pre.sustain_max_duration
          /\ adsr.release_duration = pre.release_duration
    /\ twin.since_reset =>
          /\ op = "process" => (buffer = twin.buffer /\ ret = twin.ret)
          /\ adsr.phase = twin.env.phase
          /\ adsr.current_amplitude = twin.env.current_amplitude
          /\ AdsrIsComplete(adsr) <=> AdsrIsComplete(twin.env)

\* reset called on a completed envelope that was sustained past its first
\* sample and has a note_off pending
C35_Witness ==
    /\ op = "reset"
    /\ twin.since_reset
    /\ pre.phase = "Complete"
    /\ pre.pending_note_off
    /\ pre.sustain_position > 0
    /\ pre.position > 0
    /\ adsr.phase = "Attack"
    /\ adsr = twin.env

\* ------------------------------------------------- the two envelopes of a voice
\* C33: after every handle_event and process_frame call the modulation
\* envelope and the amplitude envelope of every voice in the pool are in the
\* same state; a new voice has sample_count 0, handle_event leaves the
\* sample_count of the others alone, and a process_frame call on n samples
\* makes both envelopes of every voice write n samples and raises its
\* sample_count by n, so sample_count is the number of samples the
\* envelopes have written since the voice was created (for a sounding voice,
\* the position of its envelopes in the Attack, Decay, Sustain stream).
C33_EnvelopesInStep ==
    /\ \A i \in 1..Len(active_voices) :
          /\ active_voices[i].synth.mod_env = active_voices[i].synth.wav_env
          /\ active_voices[i].synth.wav_env.phase \in Sounding =>
                StreamPos(active_voices[i].synth.wav_env) = active_voices[i].synth.sample_count
          /\ active_voices[i].synth.wav_env.phase = "Release" =>
                active_voices[i].synth.wav_env.position <= active_voices[i].synth.sample_count
    /\ vm_op.kind = "handle_event" =>
          /\ \A i \in 1..Len(voices_before) :
                active_voices[i].synth.sample_count = voices_before[i].synth.sample_count
          /\ \A i \in (Len(voices_before) + 1)..Len(active_voices) :
                active_voices[i].synth.sample_count = 0
    /\ vm_op.kind = "process_frame" =>
          /\ \A i \in 1..Len(voices_before) :
                /\ Len(FmProcess(voices_before[i].synth, vm_op.n).mod_env_buffer) = vm_op.n
                /\ Len(FmProcess(voices_before[i].synth, vm_op.n).wav_env_buffer) = vm_op.n
          /\ \A j \in 1..Len(active_voices) :
                active_voices[j].synth.sample_count
                    = voices_before[Kept(j)].synth.sample_count + vm_op.n

\* two voices of different age, the older one releasing, the younger one
\* past its attack
C33_Witness ==
    /\ vm_op.kind = "process_frame"
    /\ vm_op.n = MaxFrame
    /\ Len(active_voices) = 2
    /\ active_voices[1].is_releasing
    /\ active_voices[1].synth.wav_env.phase = "Release"
    /\ active_voices[1].synth.mod_env.phase = "Release"
    /\ active_voices[2].synth.wav_env.phase \in {"Decay", "Sustain"}
    /\ active_voices[1].synth.sample_count > active_voices[2].synth.sample_count
    /\ active_voices[2].synth.sample_count > vm_op.n

\* ------------------------------------------------- note_off again
\* C34: note_off sets the pending flag and nothing else, so a second note_off
\* before the next process call changes nothing and that call does what it
\* does after one note_off; a note_off given to an envelope in Release or
\* Complete changes no sample and no returned state of the next process call
\* and does not restart the release: the call goes on from the position
\* reached with the release-start amplitude kept; every process call clears
\* the flag.
C34_NoteOffIdempotent ==
    /\ op = "note_off" =>
          /\ adsr = [pre EXCEPT !.pending_note_off = TRUE]
          /\ pre.pending_note_off => adsr = pre
    /\ \A n \in 0..MaxBuf :
          /\ AdsrProcess(AdsrNoteOff(AdsrNoteOff(adsr)), n) = AdsrProcess(AdsrNoteOff(adsr), n)
          /\ adsr.phase \in {"Release", "Complete"} =>
                AdsrProcess(AdsrNoteOff(adsr), n)
                    = AdsrProcess([adsr EXCEPT !.pending_note_off = FALSE], n)
    /\ op = "process" =>
          /\ ~adsr.pending_note_off
          /\ (pre.pending_note_off /\ pre.phase = "Release") =>
                /\ adsr.release_start_amplitude = pre.release_start_amplitude
                /\ adsr.phase = "Release" => adsr.position = pre.position + Len(buffer)
                /\ \A i \in 1..Len(buffer) :
                      tags[i] = "Release" =>
                          buffer[i] = Interp(pre.release_start_amplitude, 0,
                                             pre.position + i - 1, pre.release_duration)
          /\ (pre.pending_note_off /\ pre.phase = "Complete") =>
                /\ adsr.phase = "Complete"
                /\ \A i \in 1..Len(buffer) : buffer[i] = 0

\* a note_off given in the middle of a release: the next call goes on with
\* the ramp where it was
C34_Witness ==
    /\ op = "process"
    /\ pre.pending_note_off
    /\ pre.phase = "Release"
    /\ pre.position > 0
    /\ pre.release_start_amplitude > 0
    /\ adsr.phase = "Release"
    /\ Len(buffer) = 1
    /\ buffer[1] < pre.release_start_amplitude
    /\ buffer[1] > 0

\* ------------------------------------------------- rejected parameters
\* C36: FmSynthParams::new panics when harmonics and amps differ in length
\* and when phase_per_sample is not strictly between 0 and pi; every
\* parameter set it returns has harmonics and amps of one length (and holds
\* the arguments as given).
C36_MismatchAndPhaseRejected ==
    pnew.result.outcome # "none" =>
        /\ pnew.harmonics # pnew.amps => pnew.result.outcome = "panic"
        /\ ~(pnew.phase_per_sample > 0 /\ pnew.phase_per_sample < PiUnits)
              => pnew.result.outcome = "panic"
        /\ pnew.result.outcome = "returned" =>
              /\ pnew.result.params.harmonics = pnew.result.params.amps
              /\ pnew.result.params.harmonics = pnew.harmonics
              /\ pnew.result.params.amps = pnew.amps
              /\ pnew.result.params.phase_per_sample = pnew.phase_per_sample

\* a call that fails by the lengths alone
C36_Witness ==
    /\ pnew.result.outcome = "panic"
    /\ pnew.harmonics = 2
    /\ pnew.amps = 1
    /\ pnew.phase_per_sample = PiUnits \div 2
    /\ pnew.mod_depth > 0
    /\ pnew.result.message = "Harmonics and amps must have the same length"

\* C37: the oscillator created for a note has exactly twice the base phase
\* increment of the oscillator created for the same pitch class one octave
\* lower, and octave 1 C is given the increment of base_frequency itself.
C37_OctaveDoublesIncrement ==
    \A i \in 1..Len(active_voices) :
        LET note == active_voices[i].note
            p == active_voices[i].synth.params.phase_per_sample
        IN /\ note.octave >= 1 =>
                  LET lower == CreateSynth(config, [note EXCEPT !.octave = @ - 1])
                  IN p = [lower.params.phase_per_sample EXCEPT !.e = @ + 1]
           /\ note = [octave |-> 1, pitch_class |-> "C"] =>
                  p = PhasePerSample(F32Round(BaseFrequency * Pow2(23), 0, 1, 0 - 23))

====
